---------------------------- MODULE Spec2Model ----------------------------
(***************************************************************************)
(* ThisAPIOfMine: release fetcher (src/fetcher), release cache and the     *)
(* /game_version route (src/routes/version.rs).                             *)
(*                                                                          *)
(* Strings are TLA+ strings; a Rust Option<T> is a sequence of length 0    *)
(* (None) or 1 (Some), a Result<T> is a record with an "ok" flag, and a     *)
(* HashMap<String, V> is a function whose domain is the set of its keys.    *)
(***************************************************************************)
EXTENDS Integers, Sequences, FiniteSets, TLC

(***************************************************************************)
(* Bounds of the model.                                                     *)
(***************************************************************************)
MaxReleases == 3

(***************************************************************************)
(* Option, Result and HashMap.                                              *)
(***************************************************************************)
None == <<>>

Some(v) == <<v>>

Ok(v) == [ok |-> TRUE, val |-> v]

Err(e) == [ok |-> FALSE, err |-> e]

EmptyMap == <<>>

contains_key(m, k) == k \in DOMAIN m

insert(m, k, v) == [x \in (DOMAIN m) \cup {k} |-> IF x = k THEN v ELSE m[x]]

remove(m, k) == [x \in (DOMAIN m) \ {k} |-> m[x]]

(***************************************************************************)
(* InternalError (src/errors/mod.rs).  An External error carries the type  *)
(* of the boxed error, which is what InternalError::is inspects.            *)
(***************************************************************************)
InvalidSha256(n) == [kind |-> "InvalidSha256", n |-> n, type |-> ""]

WrongChecksum == [kind |-> "WrongChecksum", n |-> 0, type |-> ""]

NoReleaseFound == [kind |-> "NoReleaseFound", n |-> 0, type |-> ""]

InvalidVersion == [kind |-> "InvalidVersion", n |-> 0, type |-> ""]

External(type) == [kind |-> "External", n |-> 0, type |-> type]

is(err, type) == IF err.kind = "External" THEN err.type = type ELSE FALSE

(***************************************************************************)
(* String helpers: str::find, str::starts_with, str::ends_with and          *)
(* str::split_whitespace.                                                   *)
(***************************************************************************)
Min(S) == CHOOSE x \in S : \A y \in S : x <= y

\* 1-based position of the first occurrence of pat in s, 0 when there is none
find(s, pat) ==
    LET hits == {i \in 1..(Len(s) - Len(pat) + 1) : SubSeq(s, i, i + Len(pat) - 1) = pat}
    IN  IF hits = {} THEN 0 ELSE Min(hits)

starts_with(s, pat) == Len(s) >= Len(pat) /\ SubSeq(s, 1, Len(pat)) = pat

ends_with(s, pat) ==
    Len(s) >= Len(pat) /\ SubSeq(s, Len(s) - Len(pat) + 1, Len(s)) = pat

IsWhitespace(c) == c \in {" ", "\t", "\n", "\r"}

RECURSIVE SplitFrom(_, _)
\* tokens of s from position i on: the next token begins at the first
\* character that is no whitespace and ends before the next whitespace
SplitFrom(s, i) ==
    LET begins == {j \in i..Len(s) : ~IsWhitespace(SubSeq(s, j, j))}
    IN  IF begins = {} THEN <<>>
        ELSE LET begin == Min(begins)
                 stops == {j \in begin..Len(s) : IsWhitespace(SubSeq(s, j, j))}
                 stop == IF stops = {} THEN Len(s) + 1 ELSE Min(stops)
             IN  <<SubSeq(s, begin, stop - 1)>> \o SplitFrom(s, stop)

split_whitespace(s) == SplitFrom(s, 1)

(***************************************************************************)
(* semver::Version::parse, restricted to tags made of letters, digits and  *)
(* dots (no pre-release or build suffix): MAJOR.MINOR.PATCH, each a         *)
(* decimal number without leading zero.                                     *)
(***************************************************************************)
Digits == {"0", "1", "2", "3", "4", "5", "6", "7", "8", "9"}

DigitValue(c) ==
    CASE c = "0" -> 0 [] c = "1" -> 1 [] c = "2" -> 2 [] c = "3" -> 3
      [] c = "4" -> 4 [] c = "5" -> 5 [] c = "6" -> 6 [] c = "7" -> 7
      [] c = "8" -> 8 [] c = "9" -> 9

RECURSIVE SplitOn(_, _, _, _)
\* fields of s from position i on, separated by the character sep, empty
\* fields kept; start is where the field being read began
SplitOn(s, sep, i, start) ==
    IF i > Len(s)
    THEN <<SubSeq(s, start, Len(s))>>
    ELSE IF SubSeq(s, i, i) = sep
         THEN <<SubSeq(s, start, i - 1)>> \o SplitOn(s, sep, i + 1, i + 1)
         ELSE SplitOn(s, sep, i + 1, start)

IsNumericIdentifier(p) ==
    /\ Len(p) >= 1
    /\ \A i \in 1..Len(p) : SubSeq(p, i, i) \in Digits
    /\ (Len(p) > 1 => SubSeq(p, 1, 1) # "0")

RECURSIVE NumericValue(_, _, _)
NumericValue(p, i, acc) ==
    IF i > Len(p) THEN acc
    ELSE NumericValue(p, i + 1, acc * 10 + DigitValue(SubSeq(p, i, i)))

VersionNew(major, minor, patch) == [major |-> major, minor |-> minor, patch |-> patch]

VersionParse(tag) ==
    LET parts == SplitOn(tag, ".", 1, 1)
    IN  IF Len(parts) = 3 /\ \A i \in 1..3 : IsNumericIdentifier(parts[i])
        THEN Ok(VersionNew(NumericValue(parts[1], 1, 0),
                           NumericValue(parts[2], 1, 0),
                           NumericValue(parts[3], 1, 0)))
        ELSE Err(InvalidVersion)

(***************************************************************************)
(* src/fetcher/mod.rs: remove_game_suffix                                   *)
(***************************************************************************)
remove_game_suffix(asset_name) ==
    LET dot == find(asset_name, ".")
        platform == IF dot = 0 THEN asset_name ELSE SubSeq(asset_name, 1, dot - 1)
        marker == find(platform, "_releasedbg")
    IN  IF marker = 0 THEN platform ELSE SubSeq(platform, 1, marker - 1)

(***************************************************************************)
(* src/fetcher/checksum.rs: HttpChecksumFetcher::parse_response             *)
(***************************************************************************)
\* parse_response that does not look at the first character of the file name
parse_response_any_prefix(asset_name, response) ==
    LET parts == split_whitespace(response)
    IN  IF Len(parts) # 2
        THEN Err(InvalidSha256(Len(parts)))
        ELSE IF SubSeq(parts[2], 2, Len(parts[2])) # asset_name
             THEN Err(WrongChecksum)
             ELSE Ok(parts[1])

parse_response(asset_name, response) ==
    LET parts == split_whitespace(response)
    IN  IF Len(parts) # 2
        THEN Err(InvalidSha256(Len(parts)))
        ELSE LET sha256 == parts[1]
                 filename == parts[2]
             IN  IF ~starts_with(filename, "*")
                    \/ SubSeq(filename, 2, Len(filename)) # asset_name
                 THEN Err(WrongChecksum)
                 ELSE Ok(sha256)

(***************************************************************************)
(* The release host (octocrab models): a repos::Asset has a name, a size   *)
(* and a browser_download_url; a Release has a tag_name, a prerelease flag  *)
(* and its assets.  A repository has one release per tag.                   *)
(***************************************************************************)
AssetSize == 1000000

RepoAsset(repository, tag, name) ==
    [name |-> name,
     size |-> AssetSize,
     browser_download_url |->
        "http://github.com/repo/" \o repository \o "/releases/" \o tag \o "/" \o name]

RepoAssets(repository, tag, names) ==
    [i \in 1..Len(names) |-> RepoAsset(repository, tag, names[i])]

Release(repository, header, names) ==
    [tag_name |-> header.tag_name,
     prerelease |-> header.prerelease,
     assets |-> RepoAssets(repository, header.tag_name, names)]

\* tag and pre-release flag of the releases a listing is drawn from
ReleaseHeaders ==
    { [tag_name |-> "0.3.0", prerelease |-> TRUE],
      [tag_name |-> "0.2.0", prerelease |-> FALSE],
      [tag_name |-> "0.1.0", prerelease |-> FALSE],
      [tag_name |-> "0.1.1", prerelease |-> FALSE],
      [tag_name |-> "nightly", prerelease |-> FALSE] }

\* asset file names of the game releases a listing is drawn from
GameAssetNames ==
    { <<"windows_x64_releasedbg.zip">>,
      <<"assets.zip", "assets.zip.sha256">>,
      <<"assets.zip", "windows_x64_releasedbg.zip", "linux_x86_64_releasedbg.zip">>,
      <<"assets.zip.sha256", "windows_x64.zip", "windows_x64_releasedbg.zip">> }

\* the releases a listing is drawn from: a release that is a pre-release or
\* whose tag is no version has the files of a full release, and 0.1.1 ships
\* the windows binary alone
ReleaseChoices ==
    {hn \in ReleaseHeaders \X GameAssetNames :
        /\ (hn[1].prerelease \/ ~VersionParse(hn[1].tag_name).ok) =>
               hn[2] = <<"assets.zip", "windows_x64_releasedbg.zip",
                         "linux_x86_64_releasedbg.zip">>
        /\ hn[1].tag_name = "0.1.1" => hn[2] = <<"windows_x64_releasedbg.zip">>}

RECURSIVE ListingsOfLen(_, _)
\* the listings of n releases over the repository, no tag used twice
ListingsOfLen(n, used) ==
    IF n = 0 THEN { <<>> }
    ELSE UNION { { <<Release("game", h, names)>> \o rest :
                     rest \in ListingsOfLen(n - 1, used \cup {h.tag_name}) } :
                 <<h, names>> \in {hn \in ReleaseChoices : hn[1].tag_name \notin used} }

GameListings == UNION { ListingsOfLen(n, {}) : n \in 0..MaxReleases }

(***************************************************************************)
(* src/game_data.rs: Asset::with_version, GameRelease                       *)
(***************************************************************************)
with_version(asset, version) ==
    [size |-> asset.size,
     name |-> asset.name,
     download_url |-> asset.browser_download_url,
     sha256 |-> None,
     version |-> version]

GameRelease(assets, assets_version, binaries, version) ==
    [assets |-> assets,
     assets_version |-> assets_version,
     binaries |-> binaries,
     version |-> version]

(***************************************************************************)
(* The checksum host: what GET {download_url}.sha256 answers, and           *)
(* src/fetcher/checksum.rs: HttpChecksumFetcher::resolve_asset              *)
(***************************************************************************)
Sha256Hash == "5f70bf18a086"

ResponseKinds == {"good", "transport", "wrong_name", "one_token"}

ChecksumResponse(asset, kind) ==
    CASE kind = "good"       -> [transport_error |-> FALSE, text |-> Sha256Hash \o " *" \o asset.name]
      [] kind = "wrong_name" -> [transport_error |-> FALSE, text |-> Sha256Hash \o " *other.zip"]
      [] kind = "one_token"  -> [transport_error |-> FALSE, text |-> Sha256Hash \o "\n"]
      [] kind = "transport"  -> [transport_error |-> TRUE, text |-> ""]

resolve_asset(asset, response) ==
    IF response.transport_error
    THEN Err(External("reqwest::Error"))
    ELSE parse_response(asset.name, response.text)

(***************************************************************************)
(* src/fetcher/mod.rs: Fetcher                                              *)
(***************************************************************************)
\* versions_released_of without the pre-release filter
versions_released_with_prereleases(releases) ==
    LET eligible == SelectSeq(releases, LAMBDA r : VersionParse(r.tag_name).ok)
    IN  [i \in 1..Len(eligible) |->
            [version |-> VersionParse(eligible[i].tag_name).val, release |-> eligible[i]]]

\* lines 54-57: the releases that are no pre-release and whose tag parses
versions_released_of(releases) ==
    LET eligible == SelectSeq(releases,
                        LAMBDA r : ~r.prerelease /\ VersionParse(r.tag_name).ok)
    IN  [i \in 1..Len(eligible) |->
            [version |-> VersionParse(eligible[i].tag_name).val, release |-> eligible[i]]]

\* get_assets that does not look at the working map
get_assets_unfiltered(assets, version, binaries) ==
    LET kept == SelectSeq(assets, LAMBDA a : ~ends_with(a.name, ".sha256"))
    IN  [i \in 1..Len(kept) |->
            [platform |-> remove_game_suffix(kept[i].name),
             asset |-> with_version(kept[i], version)]]

\* get_assets that keeps the .sha256 checksum files
get_assets_with_checksum_files(assets, version, binaries) ==
    LET kept == SelectSeq(assets,
                    LAMBDA a : ~(binaries # None
                                 /\ contains_key(binaries[1], remove_game_suffix(a.name))))
    IN  [i \in 1..Len(kept) |->
            [platform |-> remove_game_suffix(kept[i].name),
             asset |-> with_version(kept[i], version)]]

\* lines 142-153: the (platform, Asset) pairs whose checksum is requested;
\* binaries is an Option<&Assets>
get_assets(assets, version, binaries) ==
    LET kept == SelectSeq(assets,
                    LAMBDA a : /\ ~ends_with(a.name, ".sha256")
                               /\ ~(binaries # None
                                    /\ contains_key(binaries[1], remove_game_suffix(a.name))))
    IN  [i \in 1..Len(kept) |->
            [platform |-> remove_game_suffix(kept[i].name),
             asset |-> with_version(kept[i], version)]]

\* set_sha256 that tolerates every checksum failure
set_sha256_tolerant(asset, sha256) ==
    IF sha256.ok
    THEN Ok([asset EXCEPT !.sha256 = Some(sha256.val)])
    ELSE Ok([asset EXCEPT !.sha256 = None])

\* lines 67-73: the asset with its checksum set, or the error that aborts
set_sha256(asset, sha256) ==
    IF sha256.ok
    THEN Ok([asset EXCEPT !.sha256 = Some(sha256.val)])
    ELSE IF is(sha256.err, "reqwest::Error")
         THEN Ok([asset EXCEPT !.sha256 = None])
         ELSE Err(sha256.err)

RECURSIVE insert_all(_, _, _, _)
\* the pairs from position i on inserted in order into acc, stopping at the
\* first checksum error that is no transport error
insert_all(acc, pairs, checksums, i) ==
    IF i > Len(pairs) THEN Ok(acc)
    ELSE LET r == set_sha256(pairs[i].asset, checksums[i])
         IN  IF r.ok
             THEN insert_all(insert(acc, pairs[i].platform, r.val), pairs, checksums, i + 1)
             ELSE Err(r.err)

\* lines 63-77 and 117-130: .map(..).collect::<Result<Assets>>()
collect_assets(pairs, checksums) == insert_all(EmptyMap, pairs, checksums, 1)

\* lines 80-93: the loop body for one older release
backfill_assets(binaries, pairs, checksums) == insert_all(binaries, pairs, checksums, 1)

\* extract_assets that reports the newest version as the version of the bundle
extract_assets_latest_version(binaries, latest_version) ==
    IF contains_key(binaries, "assets")
    THEN Ok(GameRelease(binaries["assets"],
                        latest_version,
                        remove(binaries, "assets"),
                        latest_version))
    ELSE Err(NoReleaseFound)

\* lines 96-106
extract_assets(binaries, latest_version) ==
    IF contains_key(binaries, "assets")
    THEN Ok(GameRelease(binaries["assets"],
                        binaries["assets"].version,
                        remove(binaries, "assets"),
                        latest_version))
    ELSE Err(NoReleaseFound)

\* asset file names of the updater releases get_last_release is drawn from
UpdaterAssetNames ==
    { <<>>,
      <<"windows_x64_this_updater_of_mine.zip", "windows_x64_this_updater_of_mine.zip.sha256">>,
      <<"assets.zip", "linux_x86_64_this_updater_of_mine.zip">>,
      <<"windows_x64_this_updater_of_mine.zip", "windows_x64_this_updater_of_mine.tar.gz">> }

\* the release host answers get_latest with a release that is no pre-release
UpdaterReleases ==
    { Release("updater", h, names) :
        <<h, names>> \in {hn \in ReleaseHeaders \X UpdaterAssetNames : ~hn[1].prerelease} }

(***************************************************************************)
(* State of one run of the fetcher.                                         *)
(*   f_pc               where the run is: "idle", "resolving_latest",       *)
(*                      "merged", "resolving_older", "resolving_updater",   *)
(*                      "done"                                              *)
(*   f_op               "game" or "updater" once the run has started        *)
(*   releases           the listing get_releases answered                   *)
(*   versions_released  what is left of the iterator of (version, release)  *)
(*   latest_version     version of the first eligible release               *)
(*   binaries           the working map platform -> Asset                   *)
(*   pending            the (platform, Asset) pairs whose checksum is       *)
(*                      awaited                                             *)
(*   resolve_calls      the assets handed to resolve_asset so far           *)
(*   checksums          what resolve_asset returned, in the same order      *)
(*   f_result           the Result the run returned                         *)
(***************************************************************************)
VARIABLES f_pc, f_op, releases, versions_released, latest_version, binaries,
          pending, resolve_calls, checksums, f_result

fetcher_vars == <<f_pc, f_op, releases, versions_released, latest_version, binaries,
                  pending, resolve_calls, checksums, f_result>>

NoVersion == VersionNew(0, 0, 0)

NoResult == Err(External("pending"))

FetcherInit ==
    /\ f_pc = "idle"
    /\ f_op = "none"
    /\ releases = <<>>
    /\ versions_released = <<>>
    /\ latest_version = NoVersion
    /\ binaries = EmptyMap
    /\ pending = <<>>
    /\ resolve_calls = <<>>
    /\ checksums = <<>>
    /\ f_result = NoResult

AssetsOf(pairs) == [i \in 1..Len(pairs) |-> pairs[i].asset]

\* join_all over resolve_asset: one answer of the checksum host per pair
ResolveAll(pairs, kinds) ==
    [i \in 1..Len(pairs) |->
        resolve_asset(pairs[i].asset, ChecksumResponse(pairs[i].asset, kinds[i]))]

\* get_latest_game_release, lines 52-64: the listing arrives, the first
\* eligible release is taken and the checksums of its assets are requested
GameGetReleases ==
    /\ f_pc = "idle"
    /\ f_op' = "game"
    /\ \/ /\ f_result' = Err(External("octocrab::Error"))
          /\ f_pc' = "done"
          /\ UNCHANGED <<releases, versions_released, latest_version, pending, resolve_calls>>
       \/ \E listing \in GameListings :
            LET vr == versions_released_of(listing)
            IN  /\ releases' = listing
                /\ IF vr = <<>>
                   THEN /\ f_result' = Err(NoReleaseFound)
                        /\ f_pc' = "done"
                        /\ UNCHANGED <<versions_released, latest_version, pending, resolve_calls>>
                   ELSE LET pairs == get_assets(vr[1].release.assets, vr[1].version, None)
                        IN  /\ latest_version' = vr[1].version
                            /\ versions_released' = Tail(vr)
                            /\ pending' = pairs
                            /\ resolve_calls' = resolve_calls \o AssetsOf(pairs)
                            /\ f_pc' = "resolving_latest"
                            /\ UNCHANGED f_result
    /\ UNCHANGED <<binaries, checksums>>

\* lines 63-77: the checksums of the newest release arrive
GameLatestChecksums ==
    /\ f_pc = "resolving_latest"
    /\ \E kinds \in [1..Len(pending) -> ResponseKinds] :
         LET sha256s == ResolveAll(pending, kinds)
             collected == collect_assets(pending, sha256s)
         IN  /\ checksums' = checksums \o sha256s
             /\ IF collected.ok
                THEN /\ binaries' = collected.val
                     /\ f_pc' = "merged"
                     /\ UNCHANGED f_result
                ELSE /\ f_result' = Err(collected.err)
                     /\ f_pc' = "done"
                     /\ UNCHANGED binaries
    /\ pending' = <<>>
    /\ UNCHANGED <<f_op, releases, versions_released, latest_version, resolve_calls>>

\* GameNextRelease that requests the checksum of every asset of the older
\* release, also of those whose platform the working map already holds
GameNextReleaseResolvesAll ==
    /\ f_pc = "merged"
    /\ versions_released # <<>>
    /\ LET next == Head(versions_released)
           pairs == get_assets(next.release.assets, next.version, None)
       IN  /\ pending' = pairs
           /\ resolve_calls' = resolve_calls \o AssetsOf(pairs)
    /\ versions_released' = Tail(versions_released)
    /\ f_pc' = "resolving_older"
    /\ UNCHANGED <<f_op, releases, latest_version, binaries, checksums, f_result>>

\* lines 79-82: the next older release is taken from the iterator and the
\* checksums of its assets whose platform is not in the working map are requested
GameNextRelease ==
    /\ f_pc = "merged"
    /\ versions_released # <<>>
    /\ LET next == Head(versions_released)
           pairs == get_assets(next.release.assets, next.version, Some(binaries))
       IN  /\ pending' = pairs
           /\ resolve_calls' = resolve_calls \o AssetsOf(pairs)
    /\ versions_released' = Tail(versions_released)
    /\ f_pc' = "resolving_older"
    /\ UNCHANGED <<f_op, releases, latest_version, binaries, checksums, f_result>>

\* lines 80-93: the checksums of an older release arrive
GameOlderChecksums ==
    /\ f_pc = "resolving_older"
    /\ \E kinds \in [1..Len(pending) -> ResponseKinds] :
         LET sha256s == ResolveAll(pending, kinds)
             merged == backfill_assets(binaries, pending, sha256s)
         IN  /\ checksums' = checksums \o sha256s
             /\ IF merged.ok
                THEN /\ binaries' = merged.val
                     /\ f_pc' = "merged"
                     /\ UNCHANGED f_result
                ELSE /\ f_result' = Err(merged.err)
                     /\ f_pc' = "done"
                     /\ UNCHANGED binaries
    /\ pending' = <<>>
    /\ UNCHANGED <<f_op, releases, versions_released, latest_version, resolve_calls>>

\* GameExtract that leaves the assets bundle among the returned binaries
GameExtractKeepsBundle ==
    /\ f_pc = "merged"
    /\ versions_released = <<>>
    /\ f_result' = IF contains_key(binaries, "assets")
                   THEN Ok(GameRelease(binaries["assets"], binaries["assets"].version,
                                       binaries, latest_version))
                   ELSE Err(NoReleaseFound)
    /\ UNCHANGED binaries
    /\ f_pc' = "done"
    /\ UNCHANGED <<f_op, releases, versions_released, latest_version, pending,
                   resolve_calls, checksums>>

\* lines 96-106: the iterator is exhausted, the assets bundle is taken out
GameExtract ==
    /\ f_pc = "merged"
    /\ versions_released = <<>>
    /\ f_result' = extract_assets(binaries, latest_version)
    /\ binaries' = remove(binaries, "assets")
    /\ f_pc' = "done"
    /\ UNCHANGED <<f_op, releases, versions_released, latest_version, pending,
                   resolve_calls, checksums>>

\* get_latest_updater_release, lines 110-117
UpdaterGetLastRelease ==
    /\ f_pc = "idle"
    /\ f_op' = "updater"
    /\ \/ /\ f_result' = Err(External("octocrab::Error"))
          /\ f_pc' = "done"
          /\ UNCHANGED <<releases, latest_version, pending, resolve_calls>>
       \/ \E last_release \in UpdaterReleases :
            LET version == VersionParse(last_release.tag_name)
            IN  /\ releases' = <<last_release>>
                /\ IF ~version.ok
                   THEN /\ f_result' = Err(version.err)
                        /\ f_pc' = "done"
                        /\ UNCHANGED <<latest_version, pending, resolve_calls>>
                   ELSE LET pairs == get_assets(last_release.assets, version.val, None)
                        IN  /\ latest_version' = version.val
                            /\ pending' = pairs
                            /\ resolve_calls' = resolve_calls \o AssetsOf(pairs)
                            /\ f_pc' = "resolving_updater"
                            /\ UNCHANGED f_result
    /\ UNCHANGED <<versions_released, binaries, checksums>>

\* UpdaterChecksums that takes the assets bundle out of the map, as
\* get_latest_game_release does
UpdaterChecksumsExtractsAssets ==
    /\ f_pc = "resolving_updater"
    /\ \E kinds \in [1..Len(pending) -> ResponseKinds] :
         LET sha256s == ResolveAll(pending, kinds)
             collected == collect_assets(pending, sha256s)
         IN  /\ checksums' = checksums \o sha256s
             /\ f_result' = IF collected.ok THEN Ok(remove(collected.val, "assets"))
                            ELSE collected
    /\ pending' = <<>>
    /\ f_pc' = "done"
    /\ UNCHANGED <<f_op, releases, versions_released, latest_version, binaries, resolve_calls>>

\* lines 117-130: the checksums of the updater release arrive
UpdaterChecksums ==
    /\ f_pc = "resolving_updater"
    /\ \E kinds \in [1..Len(pending) -> ResponseKinds] :
         LET sha256s == ResolveAll(pending, kinds)
         IN  /\ checksums' = checksums \o sha256s
             /\ f_result' = collect_assets(pending, sha256s)
    /\ pending' = <<>>
    /\ f_pc' = "done"
    /\ UNCHANGED <<f_op, releases, versions_released, latest_version, binaries, resolve_calls>>

FetcherNext ==
    \/ GameGetReleases
    \/ GameLatestChecksums
    \/ GameNextRelease
    \/ GameOlderChecksums
    \/ GameExtract
    \/ UpdaterGetLastRelease
    \/ UpdaterChecksums

(***************************************************************************)
(* The two fetcher operations as functions of what the release host and    *)
(* the checksum host answer: the same steps as above, run to the end.       *)
(* kinds maps a download URL to the kind of answer of the checksum host;    *)
(* a URL it does not map gets a good answer.                                *)
(***************************************************************************)
KindsFor(pairs, kinds) ==
    [i \in 1..Len(pairs) |->
        IF pairs[i].asset.download_url \in DOMAIN kinds
        THEN kinds[pairs[i].asset.download_url]
        ELSE "good"]

RECURSIVE backfill_releases(_, _, _)
\* lines 79-94: the loop over the older releases
backfill_releases(working, older, kinds) ==
    IF older = <<>> THEN Ok(working)
    ELSE LET pairs == get_assets(Head(older).release.assets, Head(older).version,
                                 Some(working))
             merged == backfill_assets(working, pairs,
                                       ResolveAll(pairs, KindsFor(pairs, kinds)))
         IN  IF merged.ok
             THEN backfill_releases(merged.val, Tail(older), kinds)
             ELSE merged

\* lines 51-107; listing is the Result of get_releases
get_latest_game_release(listing, kinds) ==
    IF ~listing.ok THEN listing
    ELSE LET vr == versions_released_of(listing.val)
         IN  IF vr = <<>> THEN Err(NoReleaseFound)
             ELSE LET pairs == get_assets(vr[1].release.assets, vr[1].version, None)
                      latest == collect_assets(pairs,
                                    ResolveAll(pairs, KindsFor(pairs, kinds)))
                  IN  IF ~latest.ok THEN latest
                      ELSE LET merged == backfill_releases(latest.val, Tail(vr), kinds)
                           IN  IF ~merged.ok THEN merged
                               ELSE extract_assets(merged.val, vr[1].version)

\* lines 109-131; last_release is the Result of get_last_release
get_latest_updater_release(last_release, kinds) ==
    IF ~last_release.ok THEN last_release
    ELSE LET version == VersionParse(last_release.val.tag_name)
         IN  IF ~version.ok THEN Err(version.err)
             ELSE LET pairs == get_assets(last_release.val.assets, version.val, None)
                  IN  collect_assets(pairs, ResolveAll(pairs, KindsFor(pairs, kinds)))

(***************************************************************************)
(* GET /game_version (src/routes/version.rs), the release cache             *)
(* (src/app_data.rs) and its lock.                                          *)
(***************************************************************************)
\* number of /game_version requests
MaxRequests == 2

\* the configured cache_lifespan, in seconds
CacheLifespan == 2

\* the clock stops at MaxTime seconds
MaxTime == 3

Requests == 1..MaxRequests

\* config.updater_filename
UpdaterFilename == "this_updater_of_mine"

\* the platforms the requests ask for
QueryPlatforms == {"windows_x64", "linux_x86_64"}

UpdaterKey == "latest_updater_release"

GameKey == "latest_game_release"

\* CachedUpdater that wraps the updater's assets in the variant of the game
CachedUpdaterAsGame(assets) == [variant |-> "Game", release |-> assets]

\* CachedReleased
CachedUpdater(assets) == [variant |-> "Updater", release |-> assets]

CachedGame(game_release) == [variant |-> "Game", release |-> game_release]

\* what the release host holds for the game repository at different times
HostGameListings ==
    { <<Release("game", [tag_name |-> "0.2.0", prerelease |-> FALSE],
                <<"windows_x64_releasedbg.zip">>),
        Release("game", [tag_name |-> "0.1.0", prerelease |-> FALSE],
                <<"assets.zip", "windows_x64_releasedbg.zip", "linux_x86_64_releasedbg.zip">>)>>,
      <<Release("game", [tag_name |-> "0.2.0", prerelease |-> FALSE],
                <<"assets.zip", "assets.zip.sha256">>),
        Release("game", [tag_name |-> "0.1.0", prerelease |-> FALSE],
                <<"assets.zip.sha256", "windows_x64.zip", "windows_x64_releasedbg.zip">>)>>,
      <<Release("game", [tag_name |-> "0.2.0", prerelease |-> FALSE],
                <<"windows_x64_releasedbg.zip">>)>> }

\* what the release host holds as the latest updater release at different times
HostUpdaterReleases ==
    { Release("updater", [tag_name |-> "0.2.0", prerelease |-> FALSE],
              <<"assets.zip", "linux_x86_64_this_updater_of_mine.zip">>),
      Release("updater", [tag_name |-> "nightly", prerelease |-> FALSE],
              <<"windows_x64_this_updater_of_mine.zip",
                "windows_x64_this_updater_of_mine.zip.sha256">>) }

\* what fetcher.get_latest_game_release() can return to the route
GameFetchOutcomes == {get_latest_game_release(Ok(l), <<>>) : l \in HostGameListings}

\* what fetcher.get_latest_updater_release() can return to the route
UpdaterFetchOutcomes == {get_latest_updater_release(Ok(r), <<>>) : r \in HostUpdaterReleases}

(***************************************************************************)
(* src/errors/api.rs: ErrorCode, RouteError and its HTTP response           *)
(***************************************************************************)
ErrorCode(name) == [name |-> name, text |-> ""]

ErrorCodeExternal(text) == [name |-> "External", text |-> text]

as_str(err_code) ==
    CASE err_code.name = "FetchUpdaterRelease" -> "fetch_updater_release"
      [] err_code.name = "FetchGameRelease" -> "fetch_game_release"
      [] err_code.name = "NicknameEmpty" -> "nickname_empty"
      [] err_code.name = "NicknameToolong" -> "nickname_toolong"
      [] err_code.name = "NicknameForbiddenCharacters" -> "nickname_forbidden_characters"
      [] err_code.name = "AuthenticationInvalidToken" -> "authentication_invalid_token"
      [] err_code.name = "EmptyToken" -> "empty_token"
      [] err_code.name = "TokenGenerationFailed" -> "token_generation_failed"
      [] err_code.name = "External" -> err_code.text
      [] err_code.name = "Internal" -> "internal"

ServerError(cause, err_code) ==
    [type |-> "ServerError", cause |-> cause, err_code |-> err_code, err_desc |-> ""]

InvalidRequest(err_code, err_desc) ==
    [type |-> "InvalidRequest", cause |-> "", err_code |-> err_code, err_desc |-> err_desc]

NotFoundPlatform(err_desc) ==
    [type |-> "NotFoundPlatform", cause |-> "", err_code |-> ErrorCode("Internal"),
     err_desc |-> err_desc]

status_code(route_error) ==
    CASE route_error.type = "ServerError" -> 500
      [] route_error.type = "InvalidRequest" -> 400
      [] route_error.type = "NotFoundPlatform" -> 404

InternalErrorDescription == "an internal error occured, please retry later."

\* error_response that answers the code of a server error as it is
error_response_verbatim(route_error) ==
    [status |-> status_code(route_error),
     body |->
        CASE route_error.type = "ServerError" ->
               [err_code |-> as_str(route_error.err_code),
                err_desc |-> IF route_error.err_code.name \in {"External", "Internal"}
                             THEN InternalErrorDescription
                             ELSE as_str(route_error.err_code)]
          [] route_error.type = "InvalidRequest" ->
               [err_code |-> as_str(route_error.err_code),
                err_desc |-> route_error.err_desc]
          [] route_error.type = "NotFoundPlatform" ->
               [err_desc |-> route_error.err_desc]]

error_response(route_error) ==
    [status |-> status_code(route_error),
     body |->
        CASE route_error.type = "ServerError" ->
               [err_code |-> IF route_error.err_code.name = "External"
                             THEN as_str(ErrorCode("Internal"))
                             ELSE as_str(route_error.err_code),
                err_desc |-> IF route_error.err_code.name \in {"External", "Internal"}
                             THEN InternalErrorDescription
                             ELSE as_str(route_error.err_code)]
          [] route_error.type = "InvalidRequest" ->
               [err_code |-> as_str(route_error.err_code),
                err_desc |-> route_error.err_desc]
          [] route_error.type = "NotFoundPlatform" ->
               [err_desc |-> route_error.err_desc]]

(***************************************************************************)
(* Serialization of the 200 body: an Asset is serialized without its name  *)
(* and version (src/game_data.rs), a Version through to_string.             *)
(***************************************************************************)
DigitChar(d) ==
    CASE d = 0 -> "0" [] d = 1 -> "1" [] d = 2 -> "2" [] d = 3 -> "3" [] d = 4 -> "4"
      [] d = 5 -> "5" [] d = 6 -> "6" [] d = 7 -> "7" [] d = 8 -> "8" [] d = 9 -> "9"

RECURSIVE NatToString(_)
NatToString(n) ==
    IF n < 10 THEN DigitChar(n) ELSE NatToString(n \div 10) \o DigitChar(n % 10)

version_to_string(version) ==
    NatToString(version.major) \o "." \o NatToString(version.minor)
        \o "." \o NatToString(version.patch)

\* serialize_asset that keeps the version of the asset's release
serialize_asset_with_version(asset) ==
    [size |-> asset.size, download_url |-> asset.download_url, sha256 |-> asset.sha256,
     version |-> asset.version]

serialize_asset(asset) ==
    [size |-> asset.size, download_url |-> asset.download_url, sha256 |-> asset.sha256]

\* game_version_response that looks the updater up under the platform alone
game_version_response_plain_key(platform, updater_release, game_release) ==
    IF contains_key(updater_release, platform)
       /\ contains_key(game_release.binaries, platform)
    THEN [status |-> 200,
          body |-> [assets |-> serialize_asset(game_release.assets),
                    assets_version |-> version_to_string(game_release.assets_version),
                    binaries |-> serialize_asset(game_release.binaries[platform]),
                    updater |-> serialize_asset(updater_release[platform]),
                    version |-> version_to_string(game_release.version)]]
    ELSE error_response(NotFoundPlatform(
            "no updater or game binary release found for platform " \o platform))

\* src/routes/version.rs, lines 66-85: the response once both releases are known
game_version_response(platform, updater_release, game_release) ==
    LET updater_filename == platform \o "_" \o UpdaterFilename
    IN  IF contains_key(updater_release, updater_filename)
           /\ contains_key(game_release.binaries, platform)
        THEN [status |-> 200,
              body |-> [assets |-> serialize_asset(game_release.assets),
                        assets_version |-> version_to_string(game_release.assets_version),
                        binaries |-> serialize_asset(game_release.binaries[platform]),
                        updater |-> serialize_asset(updater_release[updater_filename]),
                        version |-> version_to_string(game_release.version)]]
        ELSE error_response(NotFoundPlatform(
                "no updater or game binary release found for platform " \o platform))

(***************************************************************************)
(* State of the service.                                                    *)
(*   now           the clock, in seconds                                    *)
(*   cache         the TimedCache store: key -> (instant, value)            *)
(*   lock_holder   the request holding the cache mutex, 0 when it is free   *)
(*   lock_waiters  the requests waiting for the mutex, first come first     *)
(*   pc            where each request is: "idle", "waiting",                *)
(*                 "updater_lookup", "fetching_updater", "game_lookup",     *)
(*                 "fetching_game", "responded"                             *)
(*   platform      the platform each request asks for, "" until it is used  *)
(*   updater_release  per request, the updater release once it has it       *)
(*   invoked_at    per request, when it invoked the producer it waits for   *)
(*   response      per request, the HTTP response                           *)
(*   cache_log     the returns of try_get_or_set_with, in order             *)
(*   fetchable     what the fetcher can return from the releases the host   *)
(*                 serves, the same all along a behaviour                   *)
(***************************************************************************)
VARIABLES now, cache, lock_holder, lock_waiters, pc, platform, updater_release,
          invoked_at, response, cache_log, fetchable

route_vars == <<now, cache, lock_holder, lock_waiters, pc, platform, updater_release,
                invoked_at, response, cache_log, fetchable>>

NoResponse == [status |-> 0, body |-> [err_desc |-> ""]]

RouteInit ==
    /\ now = 0
    /\ cache = EmptyMap
    /\ lock_holder = 0
    /\ lock_waiters = <<>>
    /\ pc = [r \in Requests |-> "idle"]
    /\ platform = [r \in Requests |-> ""]
    /\ updater_release = [r \in Requests |-> None]
    /\ invoked_at = [r \in Requests |-> 0]
    /\ response = [r \in Requests |-> NoResponse]
    /\ cache_log = <<>>
    /\ fetchable = [updater |-> UpdaterFetchOutcomes, game |-> GameFetchOutcomes]

\* TimedCache: the entry of key is present and younger than the lifespan
cache_fresh(store, key, at) ==
    contains_key(store, key) /\ at - store[key].instant < CacheLifespan

\* TimedCache: the producer returned value for key, stamped with the instant at
cache_set(store, key, at, value) == insert(store, key, [instant |-> at, value |-> value])

\* TimedCache: the instants an entry may be stamped with; Instant::now() is
\* read once between the invocation of the producer and its return, and not
\* used when the producer fails
Instants(from, fetched) == IF fetched.ok THEN from..now ELSE {now}

LogEntry(r, key, hit, invoked, stamp, result) ==
    [request |-> r, key |-> key, hit |-> hit, invoked_at |-> invoked, stamp |-> stamp,
     at |-> now, result |-> result]

\* Respond that returns with the cache mutex still held
RespondKeepsLock(r, resp) ==
    /\ response' = [response EXCEPT ![r] = resp]
    /\ pc' = [pc EXCEPT ![r] = "responded"]
    /\ UNCHANGED <<lock_holder, lock_waiters>>

\* the handler returns: the response is sent and the MutexGuard is dropped,
\* which hands the mutex to the first waiter
Respond(r, resp) ==
    /\ response' = [response EXCEPT ![r] = resp]
    /\ IF lock_waiters = <<>>
       THEN /\ lock_holder' = 0
            /\ lock_waiters' = lock_waiters
            /\ pc' = [pc EXCEPT ![r] = "responded"]
       ELSE /\ lock_holder' = Head(lock_waiters)
            /\ lock_waiters' = Tail(lock_waiters)
            /\ pc' = [pc EXCEPT ![r] = "responded", ![Head(lock_waiters)] = "updater_lookup"]

\* lines 66-85: the handler builds the response from the platform of the
\* query, an input of the request that is drawn here, where it is first used
Answer(r, game_release) ==
    \E p \in QueryPlatforms :
        /\ platform' = [platform EXCEPT ![r] = p]
        /\ Respond(r, game_version_response(p, updater_release[r][1], game_release))

\* RequestArrives that goes on without the cache mutex
RequestArrivesWithoutLock(r) ==
    /\ pc[r] = "idle"
    /\ \A q \in 1..(r - 1) : pc[q] # "idle"
    /\ pc' = [pc EXCEPT ![r] = "updater_lookup"]
    /\ lock_holder' = r
    /\ UNCHANGED <<now, cache, lock_waiters, platform, updater_release, invoked_at,
                   response, cache_log>>

\* lines 22-30: a request arrives and asks for the cache mutex; requests are
\* numbered in the order they arrive
RequestArrives(r) ==
    /\ pc[r] = "idle"
    /\ \A q \in 1..(r - 1) : pc[q] # "idle"
    /\ IF lock_holder = 0
       THEN /\ lock_holder' = r
            /\ pc' = [pc EXCEPT ![r] = "updater_lookup"]
            /\ UNCHANGED lock_waiters
       ELSE /\ lock_waiters' = Append(lock_waiters, r)
            /\ pc' = [pc EXCEPT ![r] = "waiting"]
            /\ UNCHANGED lock_holder
    /\ UNCHANGED <<now, cache, platform, updater_release, invoked_at, response, cache_log>>

\* UpdaterLookup that invokes the producer whatever the cache holds
UpdaterLookupWithoutCache(r) ==
    /\ pc[r] = "updater_lookup"
    /\ pc' = [pc EXCEPT ![r] = "fetching_updater"]
    /\ invoked_at' = [invoked_at EXCEPT ![r] = now]
    /\ UNCHANGED <<now, cache, platform, lock_holder, lock_waiters, response,
                   updater_release, cache_log>>

\* lines 33-48: try_get_or_set_with("latest_updater_release", ..) up to the
\* point where it returns the cached entry or invokes the producer
UpdaterLookup(r) ==
    /\ pc[r] = "updater_lookup"
    /\ IF cache_fresh(cache, UpdaterKey, now)
       THEN LET cached == cache[UpdaterKey].value
            IN  /\ cache_log' = Append(cache_log,
                                    LogEntry(r, UpdaterKey, TRUE, now,
                                             cache[UpdaterKey].instant, Ok(cached)))
                /\ IF cached.variant = "Updater"
                   THEN /\ updater_release' = [updater_release EXCEPT ![r] = Some(cached.release)]
                        /\ pc' = [pc EXCEPT ![r] = "game_lookup"]
                        /\ UNCHANGED <<lock_holder, lock_waiters, response>>
                   ELSE /\ Respond(r, error_response(
                                ServerError("Internal", ErrorCode("FetchUpdaterRelease"))))
                        /\ UNCHANGED updater_release
                /\ UNCHANGED invoked_at
       ELSE /\ pc' = [pc EXCEPT ![r] = "fetching_updater"]
            /\ invoked_at' = [invoked_at EXCEPT ![r] = now]
            /\ UNCHANGED <<lock_holder, lock_waiters, response, updater_release, cache_log>>
    /\ UNCHANGED <<now, cache, platform>>

\* UpdaterFetched that empties the cache before it stores the release
UpdaterFetchedResetsCache(r) ==
    /\ pc[r] = "fetching_updater"
    /\ \E fetched \in fetchable.updater : \E stamp \in Instants(invoked_at[r], fetched) :
         /\ cache_log' = Append(cache_log,
                LogEntry(r, UpdaterKey, FALSE, invoked_at[r], stamp,
                         IF fetched.ok THEN Ok(CachedUpdater(fetched.val)) ELSE fetched))
         /\ IF fetched.ok
            THEN /\ cache' = cache_set(EmptyMap, UpdaterKey, stamp, CachedUpdater(fetched.val))
                 /\ updater_release' = [updater_release EXCEPT ![r] = Some(fetched.val)]
                 /\ pc' = [pc EXCEPT ![r] = "game_lookup"]
                 /\ UNCHANGED <<lock_holder, lock_waiters, response>>
            ELSE /\ Respond(r, error_response(
                        ServerError("Internal", ErrorCode("FetchUpdaterRelease"))))
                 /\ UNCHANGED <<cache, updater_release>>
    /\ UNCHANGED <<now, platform, invoked_at>>

\* lines 33-48: get_latest_updater_release() returns to try_get_or_set_with
UpdaterFetched(r) ==
    /\ pc[r] = "fetching_updater"
    /\ \E fetched \in fetchable.updater : \E stamp \in Instants(invoked_at[r], fetched) :
         /\ cache_log' = Append(cache_log,
                LogEntry(r, UpdaterKey, FALSE, invoked_at[r], stamp,
                         IF fetched.ok THEN Ok(CachedUpdater(fetched.val)) ELSE fetched))
         /\ IF fetched.ok
            THEN /\ cache' = cache_set(cache, UpdaterKey, stamp, CachedUpdater(fetched.val))
                 /\ updater_release' = [updater_release EXCEPT ![r] = Some(fetched.val)]
                 /\ pc' = [pc EXCEPT ![r] = "game_lookup"]
                 /\ UNCHANGED <<lock_holder, lock_waiters, response>>
            ELSE /\ Respond(r, error_response(
                        ServerError("Internal", ErrorCode("FetchUpdaterRelease"))))
                 /\ UNCHANGED <<cache, updater_release>>
    /\ UNCHANGED <<now, platform, invoked_at>>

\* GameLookup that gives the cache mutex away before it invokes the producer
GameLookupReleasesLock(r) ==
    /\ pc[r] = "game_lookup"
    /\ IF cache_fresh(cache, GameKey, now)
       THEN LET cached == cache[GameKey].value
            IN  /\ cache_log' = Append(cache_log,
                                    LogEntry(r, GameKey, TRUE, now,
                                             cache[GameKey].instant, Ok(cached)))
                /\ IF cached.variant = "Game"
                   THEN Answer(r, cached.release)
                   ELSE /\ Respond(r, error_response(
                                ServerError("Internal", ErrorCode("FetchGameRelease"))))
                        /\ UNCHANGED platform
                /\ UNCHANGED invoked_at
       ELSE /\ invoked_at' = [invoked_at EXCEPT ![r] = now]
            /\ IF lock_waiters = <<>>
               THEN /\ lock_holder' = 0
                    /\ lock_waiters' = lock_waiters
                    /\ pc' = [pc EXCEPT ![r] = "fetching_game"]
               ELSE /\ lock_holder' = Head(lock_waiters)
                    /\ lock_waiters' = Tail(lock_waiters)
                    /\ pc' = [pc EXCEPT ![r] = "fetching_game",
                                        ![Head(lock_waiters)] = "updater_lookup"]
            /\ UNCHANGED <<platform, response, cache_log>>
    /\ UNCHANGED <<now, cache, updater_release>>

\* lines 50-85: try_get_or_set_with("latest_game_release", ..) up to the point
\* where it invokes the producer or, on a cached entry, to the response
GameLookup(r) ==
    /\ pc[r] = "game_lookup"
    /\ IF cache_fresh(cache, GameKey, now)
       THEN LET cached == cache[GameKey].value
            IN  /\ cache_log' = Append(cache_log,
                                    LogEntry(r, GameKey, TRUE, now,
                                             cache[GameKey].instant, Ok(cached)))
                /\ IF cached.variant = "Game"
                   THEN Answer(r, cached.release)
                   ELSE /\ Respond(r, error_response(
                                ServerError("Internal", ErrorCode("FetchGameRelease"))))
                        /\ UNCHANGED platform
                /\ UNCHANGED invoked_at
       ELSE /\ pc' = [pc EXCEPT ![r] = "fetching_game"]
            /\ invoked_at' = [invoked_at EXCEPT ![r] = now]
            /\ UNCHANGED <<lock_holder, lock_waiters, platform, response, cache_log>>
    /\ UNCHANGED <<now, cache, updater_release>>

\* GameFetched that drops the entry of the key when the producer fails
GameFetchedDropsEntry(r) ==
    /\ pc[r] = "fetching_game"
    /\ \E fetched \in fetchable.game : \E stamp \in Instants(invoked_at[r], fetched) :
         /\ cache_log' = Append(cache_log,
                LogEntry(r, GameKey, FALSE, invoked_at[r], stamp,
                         IF fetched.ok THEN Ok(CachedGame(fetched.val)) ELSE fetched))
         /\ IF fetched.ok
            THEN /\ cache' = cache_set(cache, GameKey, stamp, CachedGame(fetched.val))
                 /\ Answer(r, fetched.val)
            ELSE /\ Respond(r, error_response(
                        ServerError("Internal", ErrorCode("FetchGameRelease"))))
                 /\ cache' = remove(cache, GameKey)
                 /\ UNCHANGED platform
    /\ UNCHANGED <<now, updater_release, invoked_at>>

\* lines 50-85: get_latest_game_release() returns to try_get_or_set_with
GameFetched(r) ==
    /\ pc[r] = "fetching_game"
    /\ \E fetched \in fetchable.game : \E stamp \in Instants(invoked_at[r], fetched) :
         /\ cache_log' = Append(cache_log,
                LogEntry(r, GameKey, FALSE, invoked_at[r], stamp,
                         IF fetched.ok THEN Ok(CachedGame(fetched.val)) ELSE fetched))
         /\ IF fetched.ok
            THEN /\ cache' = cache_set(cache, GameKey, stamp, CachedGame(fetched.val))
                 /\ Answer(r, fetched.val)
            ELSE /\ Respond(r, error_response(
                        ServerError("Internal", ErrorCode("FetchGameRelease"))))
                 /\ UNCHANGED <<cache, platform>>
    /\ UNCHANGED <<now, updater_release, invoked_at>>

\* a second passes; the clock is followed while a request is still to be answered
Tick ==
    /\ now < MaxTime
    /\ \E r \in Requests : pc[r] # "responded"
    /\ now' = now + 1
    /\ UNCHANGED <<cache, lock_holder, lock_waiters, pc, platform, updater_release,
                   invoked_at, response, cache_log>>

RouteNext ==
    \/ \E r \in Requests : RequestArrives(r)
    \/ \E r \in Requests : UpdaterLookup(r)
    \/ \E r \in Requests : UpdaterFetched(r)
    \/ \E r \in Requests : GameLookup(r)
    \/ \E r \in Requests : GameFetched(r)
    \/ Tick

(***************************************************************************)
(* The two text functions of the fetcher, applied to one input each.         *)
(*   t_input    the input: a file name for remove_game_suffix, an asset     *)
(*              name and a response body for parse_response                 *)
(*   t_pc       "idle" when there is no input, "ready", then "done"         *)
(*   t_output   the value the function returned                             *)
(***************************************************************************)
VARIABLES t_pc, t_input, t_output

text_vars == <<t_pc, t_input, t_output>>

MaxTokens == 3

\* file names: a stem without '.', then "_releasedbg" or not, then an extension
FileStems == {"", "assets", "windows_x64", "linux_x86_64", "windows_releasedbg_x64"}

FileExtensions == {"", ".zip", ".tar.gz", ".zip.sha256"}

FileNameInputs ==
    { [op |-> "remove_game_suffix", stem |-> stem, marked |-> marked, extension |-> ext,
       asset_name |-> stem \o (IF marked THEN "_releasedbg" ELSE "") \o ext] :
        <<stem, marked, ext>> \in FileStems \X BOOLEAN \X FileExtensions }

\* response bodies: tokens without whitespace, separated by sep and, when
\* padded, with whitespace before the first and after the last
ResponseAssetNames == {"assets.zip", "windows_x64_releasedbg.zip"}

ResponseTokens(asset_name) ==
    {Sha256Hash, "*" \o asset_name, asset_name, "-" \o asset_name, "*"}

ResponseSeparators == {" ", "  ", "\t\n"}

RECURSIVE JoinTokens(_, _)
JoinTokens(tokens, sep) ==
    IF tokens = <<>> THEN ""
    ELSE IF Len(tokens) = 1 THEN tokens[1]
    ELSE tokens[1] \o sep \o JoinTokens(Tail(tokens), sep)

ResponseBody(tokens, sep, padded) ==
    IF padded THEN " " \o JoinTokens(tokens, sep) \o "\n" ELSE JoinTokens(tokens, sep)

TokenSeqs(asset_name) ==
    UNION { [1..n -> ResponseTokens(asset_name)] : n \in 0..MaxTokens }

ResponseInputs ==
    UNION { { [op |-> "parse_response", asset_name |-> asset_name, tokens |-> tokens,
               response |-> ResponseBody(tokens, sep, padded)] :
                <<tokens, sep, padded>> \in
                    TokenSeqs(asset_name) \X ResponseSeparators \X BOOLEAN } :
            asset_name \in ResponseAssetNames }

TextIdle ==
    /\ t_pc = "idle"
    /\ t_input = [op |-> "none"]
    /\ t_output = NoResult

TextInit ==
    /\ t_pc = "ready"
    /\ t_input \in FileNameInputs \cup ResponseInputs
    /\ t_output = NoResult

\* src/fetcher/mod.rs, line 145: the platform of an asset is derived
ApplyRemoveGameSuffix ==
    /\ t_pc = "ready"
    /\ t_input.op = "remove_game_suffix"
    /\ t_output' = Ok(remove_game_suffix(t_input.asset_name))
    /\ t_pc' = "done"
    /\ UNCHANGED t_input

\* src/fetcher/checksum.rs, line 43: the body of the checksum file is parsed
ApplyParseResponse ==
    /\ t_pc = "ready"
    /\ t_input.op = "parse_response"
    /\ t_output' = parse_response(t_input.asset_name, t_input.response)
    /\ t_pc' = "done"
    /\ UNCHANGED t_input

TextNext ==
    \/ ApplyRemoveGameSuffix
    \/ ApplyParseResponse

(***************************************************************************)
(* The connection token, routes/connection/token.rs.  A Rust string is a    *)
(* sequence of Unicode scalar values here, so that its UTF-8 bytes are      *)
(* computed; a byte string is a sequence of numbers in 0..255.              *)
(***************************************************************************)
XCHACHA20POLY1305_IETF_ABYTES == 16

TOKEN_VERSION == 1

KeySize == 32

NonceSize == 24

\* Duration and SystemTime count in fractions of a second
TicksPerSecond == 2

\* Duration::as_secs
as_secs(ticks) == ticks \div TicksPerSecond

\* Duration::from_secs
from_secs(secs) == secs * TicksPerSecond

RECURSIVE Flatten(_)
Flatten(seqs) == IF seqs = <<>> THEN <<>> ELSE Head(seqs) \o Flatten(Tail(seqs))

\* the UTF-8 encoding of one scalar value below U+0800
Utf8(c) == IF c < 128 THEN <<c>> ELSE <<192 + (c \div 64), 128 + (c % 64)>>

\* str::as_bytes
as_bytes(str) == Flatten([i \in 1..Len(str) |-> Utf8(str[i])])

RECURSIVE LittleEndian(_, _)
\* the little-endian bytes of an unsigned integer of the given width; the
\* lengths and timestamps of the model fit the u32 and the u64 they are
\* written as
LittleEndian(n, width) ==
    IF width = 0 THEN <<>> ELSE <<n % 256>> \o LittleEndian(n \div 256, width - 1)

\* deku_helper_write_str: the length as a u32, then the bytes
deku_helper_write_str(value) ==
    LET str_bytes == as_bytes(value)
        str_len == Len(str_bytes)
    IN  LittleEndian(str_len, 4) \o str_bytes

\* Uuid::to_bytes_le: the first three fields of the UUID byte-swapped
to_bytes_le(uuid) ==
    <<uuid[4], uuid[3], uuid[2], uuid[1], uuid[6], uuid[5], uuid[8], uuid[7]>>
        \o SubSeq(uuid, 9, 16)

deku_helper_write_uuid(value) == to_bytes_le(value)

deku_helper_write_key(value) == value

PlayerData(uuid, nickname) == [uuid |-> uuid, nickname |-> nickname]

\* PrivateToken::generate
PrivateToken(game_api_url, game_api_token, player_data) ==
    [api_token |-> game_api_token, api_url |-> game_api_url, player_data |-> player_data]

\* PlayerData as DekuWrite
player_data_to_bytes(player_data) ==
    deku_helper_write_uuid(player_data.uuid) \o deku_helper_write_str(player_data.nickname)

\* PrivateToken as DekuWrite
private_token_to_bytes(private_token) ==
    deku_helper_write_str(private_token.api_token)
        \o deku_helper_write_str(private_token.api_url)
        \o player_data_to_bytes(private_token.player_data)

AdditionalTokenData(token_version, expire_timestamp, client_to_server_key, server_to_client_key) ==
    [token_version |-> token_version,
     expire_timestamp |-> expire_timestamp,
     client_to_server_key |-> client_to_server_key,
     server_to_client_key |-> server_to_client_key]

\* AdditionalTokenData as DekuWrite
additional_data_to_bytes(additional_data) ==
    LittleEndian(additional_data.token_version, 4)
        \o LittleEndian(additional_data.expire_timestamp, 8)
        \o deku_helper_write_key(additional_data.client_to_server_key)
        \o deku_helper_write_key(additional_data.server_to_client_key)

ServerAddress(address, port) == [address |-> address, port |-> port]

\* Vec::resize to a longer length
resize(bytes, new_len, value) ==
    bytes \o [i \in 1..(new_len - Len(bytes)) |-> value]

(***************************************************************************)
(* XChaCha20Poly1305 is abstracted.  The stream cipher adds to each byte a  *)
(* keystream byte that depends on the key, the nonce and the position, so   *)
(* the ciphertext is as long as the plaintext; the tag is sixteen copies of *)
(* a value that stands for the Poly1305 authenticator of the key, the       *)
(* nonce, the associated data and the ciphertext.                           *)
(***************************************************************************)
KeyStream(key, nonce, i) == (key[1] + 3 * nonce[1] + 7 * i) % 256

Authenticator(key, nonce, associated_data, ciphertext) ==
    [key |-> key, nonce |-> nonce, associated_data |-> associated_data,
     ciphertext |-> ciphertext]

encrypt_in_place_detached(key, nonce, associated_data, buffer) ==
    LET ciphertext == [i \in 1..Len(buffer) |-> (buffer[i] + KeyStream(key, nonce, i)) % 256]
    IN  [buffer |-> ciphertext,
         tag |-> [i \in 1..XCHACHA20POLY1305_IETF_ABYTES |->
                      Authenticator(key, nonce, associated_data, ciphertext)]]

\* AeadMutInPlace::encrypt_in_place on a Vec<u8>: the whole buffer is
\* encrypted and the tag is appended to it
encrypt_in_place(key, nonce, associated_data, buffer) ==
    LET sealed == encrypt_in_place_detached(key, nonce, associated_data, buffer)
    IN  sealed.buffer \o sealed.tag

\* the decryption a receiver of the token runs: the tag is checked against
\* the key, the nonce, the associated data and the ciphertext, and the
\* plaintext is returned only when it matches
decrypt(key, nonce, associated_data, data) ==
    IF Len(data) < XCHACHA20POLY1305_IETF_ABYTES THEN Err(External("aead::Error"))
    ELSE LET ciphertext == SubSeq(data, 1, Len(data) - XCHACHA20POLY1305_IETF_ABYTES)
             tag == SubSeq(data, Len(data) - XCHACHA20POLY1305_IETF_ABYTES + 1, Len(data))
         IN  IF \A i \in 1..XCHACHA20POLY1305_IETF_ABYTES :
                    tag[i] = Authenticator(key, nonce, associated_data, ciphertext)
             THEN Ok([i \in 1..Len(ciphertext) |->
                          (ciphertext[i] + 256 - KeyStream(key, nonce, i)) % 256])
             ELSE Err(External("aead::Error"))

SystemTimeError == [kind |-> "SystemTimeError", n |-> 0, type |-> ""]

\* what the operating system hands to one call of Token::generate: the
\* wall clock in ticks since the epoch (negative before it), the random
\* keys and nonce, and the step that fails, if one does
NoFailure == "none"

GenerateFailures == {NoFailure, "additional_data.to_bytes", "private_token.to_bytes",
                     "encrypt_in_place"}

OsDraw(clock, keys, nonce, fails) ==
    [clock |-> clock, keys |-> keys, nonce |-> nonce, fails |-> fails]

\* Token::generate whose additional data carry the keys the other way round
generate_header_keys_swapped(token_key, duration, server_address, private_token, os) ==
    IF os.clock < 0 THEN Err(SystemTimeError)
    ELSE LET timestamp == os.clock
             expire_timestamp == timestamp + duration
             additional_data ==
                 AdditionalTokenData(TOKEN_VERSION, as_secs(expire_timestamp),
                                     os.keys.server_to_client, os.keys.client_to_server)
             additional_data_bytes == additional_data_to_bytes(additional_data)
             serialized == private_token_to_bytes(private_token)
             private_token_bytes ==
                 resize(serialized, Len(serialized) + XCHACHA20POLY1305_IETF_ABYTES, 0)
         IN  IF os.fails = "additional_data.to_bytes" THEN Err(External("deku::DekuError"))
             ELSE IF os.fails = "private_token.to_bytes" THEN Err(External("deku::DekuError"))
             ELSE IF os.fails = "encrypt_in_place" THEN Err(External("aead::Error"))
             ELSE Ok([token_version |-> TOKEN_VERSION,
                      token_nonce |-> os.nonce,
                      creation_timestamp |-> as_secs(timestamp),
                      expire_timestamp |-> as_secs(expire_timestamp),
                      encryption_keys |-> os.keys,
                      game_server |-> server_address,
                      private_token_data |->
                          encrypt_in_place(token_key, os.nonce, additional_data_bytes,
                                           private_token_bytes)])

\* Token::generate that takes the expiry from the duration alone
generate_expire_from_duration(token_key, duration, server_address, private_token, os) ==
    IF os.clock < 0 THEN Err(SystemTimeError)
    ELSE LET timestamp == os.clock
             expire_timestamp == duration
             additional_data ==
                 AdditionalTokenData(TOKEN_VERSION, as_secs(expire_timestamp),
                                     os.keys.client_to_server, os.keys.server_to_client)
             additional_data_bytes == additional_data_to_bytes(additional_data)
             serialized == private_token_to_bytes(private_token)
             private_token_bytes ==
                 resize(serialized, Len(serialized) + XCHACHA20POLY1305_IETF_ABYTES, 0)
         IN  IF os.fails = "additional_data.to_bytes" THEN Err(External("deku::DekuError"))
             ELSE IF os.fails = "private_token.to_bytes" THEN Err(External("deku::DekuError"))
             ELSE IF os.fails = "encrypt_in_place" THEN Err(External("aead::Error"))
             ELSE Ok([token_version |-> TOKEN_VERSION,
                      token_nonce |-> os.nonce,
                      creation_timestamp |-> as_secs(timestamp),
                      expire_timestamp |-> as_secs(expire_timestamp),
                      encryption_keys |-> os.keys,
                      game_server |-> server_address,
                      private_token_data |->
                          encrypt_in_place(token_key, os.nonce, additional_data_bytes,
                                           private_token_bytes)])

\* Token::generate, lines 76-118
generate(token_key, duration, server_address, private_token, os) ==
    IF os.clock < 0 THEN Err(SystemTimeError)
    ELSE LET timestamp == os.clock
             expire_timestamp == timestamp + duration
             additional_data ==
                 AdditionalTokenData(TOKEN_VERSION, as_secs(expire_timestamp),
                                     os.keys.client_to_server, os.keys.server_to_client)
             additional_data_bytes == additional_data_to_bytes(additional_data)
             serialized == private_token_to_bytes(private_token)
             private_token_bytes ==
                 resize(serialized, Len(serialized) + XCHACHA20POLY1305_IETF_ABYTES, 0)
         IN  IF os.fails = "additional_data.to_bytes" THEN Err(External("deku::DekuError"))
             ELSE IF os.fails = "private_token.to_bytes" THEN Err(External("deku::DekuError"))
             ELSE IF os.fails = "encrypt_in_place" THEN Err(External("aead::Error"))
             ELSE Ok([token_version |-> TOKEN_VERSION,
                      token_nonce |-> os.nonce,
                      creation_timestamp |-> as_secs(timestamp),
                      expire_timestamp |-> as_secs(expire_timestamp),
                      encryption_keys |-> os.keys,
                      game_server |-> server_address,
                      private_token_data |->
                          encrypt_in_place(token_key, os.nonce, additional_data_bytes,
                                           private_token_bytes)])

(***************************************************************************)
(* POST /v1/game/connect, routes/connection/mod.rs.  The database and the   *)
(* operating system are the environment: each step draws what they answer.  *)
(***************************************************************************)
VARIABLES connect_pc, params, config, player_id, player_result, drawn, generated,
          connect_error, connect_response, store_queries

connect_vars == <<connect_pc, params, config, player_id, player_result, drawn,
                  generated, connect_error, connect_response, store_queries>>

\* wall-clock readings go from one tick before the epoch to MaxClock ticks
MaxClock == 3

\* configured durations go up to MaxDuration seconds
MaxDuration == 1

\* nicknames have up to MaxNickname characters
MaxNickname == 2

\* [0, 1, .., 31] and a second key
KeyFrom(first) == [i \in 1..KeySize |-> (first + i - 1) % 256]

NonceFrom(first) == [i \in 1..NonceSize |-> (first + i - 1) % 256]

\* "http://localhost"
LocalhostUrl == <<104, 116, 116, 112, 58, 47, 47, 108, 111, 99, 97, 108, 104, 111, 115, 116>>

\* "" and "té"
ApiTokens == {<<>>, <<116, 233>>}

ApiConfigs ==
    {[game_api_token |-> game_api_token,
      game_api_url |-> LocalhostUrl,
      game_server_address |-> "localhost",
      game_server_port |-> 29536,
      game_api_token_duration |-> from_secs(secs),
      connection_token_key |-> KeyFrom(first)] :
        game_api_token \in ApiTokens, secs \in 0..MaxDuration, first \in {0, 100}}

\* a token of 65 bytes
LongToken == "0123456789012345678901234567890123456789012345678901234567890123X"

ConnectTokens == {"", "tok", LongToken}

\* "a" and "é"
NicknameChars == {97, 233}

Nicknames == UNION {[1..n -> NicknameChars] : n \in 0..MaxNickname}

PlayerUuid == [i \in 1..16 |-> 16 * i - 1]

PlayerRows == {[uuid |-> PlayerUuid, nickname |-> nickname] : nickname \in Nicknames}

NoRow == [uuid |-> <<>>, nickname |-> <<>>]

OsKeys ==
    {[client_to_server |-> KeyFrom(1), server_to_client |-> KeyFrom(2)],
     [client_to_server |-> KeyFrom(2), server_to_client |-> KeyFrom(1)]}

OsDraws ==
    {OsDraw(clock, keys, NonceFrom(first), fails) :
        clock \in (-1)..MaxClock, keys \in OsKeys, first \in {5, 6},
        fails \in GenerateFailures}

NoDraw == OsDraw(0, [client_to_server |-> <<>>, server_to_client |-> <<>>], <<>>, NoFailure)

NoGenerated == Err(External("pending"))

NoRouteError == [type |-> "", cause |-> "", err_code |-> ErrorCode("Internal"), err_desc |-> ""]

\* error_from!: tokio_postgres::Error and deadpool_postgres::PoolError
DatabaseErrorTexts == {"db error: connection closed", "Timeout occurred while waiting for a slot to become available"}

DatabaseError(text) == ServerError("Database", ErrorCodeExternal(text))

ConnectIdle ==
    /\ connect_pc = "idle"
    /\ params = [token |-> ""]
    /\ config = CHOOSE c \in ApiConfigs :
                   /\ c.game_api_token = <<>>
                   /\ c.game_api_token_duration = 0
                   /\ c.connection_token_key = KeyFrom(0)
    /\ player_id = 0
    /\ player_result = NoRow
    /\ drawn = NoDraw
    /\ generated = NoGenerated
    /\ connect_error = NoRouteError
    /\ connect_response = NoResponse
    /\ store_queries = 0

ConnectInit ==
    /\ connect_pc = "idle"
    /\ params \in {[token |-> token] : token \in ConnectTokens}
    /\ config \in ApiConfigs
    /\ player_id = 0
    /\ player_result = NoRow
    /\ drawn = NoDraw
    /\ generated = NoGenerated
    /\ connect_error = NoRouteError
    /\ connect_response = NoResponse
    /\ store_queries = 0

\* the handler returns Err(route_error): actix answers error_response()
ConnectFails(route_error) ==
    /\ connect_error' = route_error
    /\ connect_response' = error_response(route_error)
    /\ connect_pc' = "responded"

\* line 30: pg_pool.get().await?
GetClient ==
    /\ connect_pc = "idle"
    /\ \/ /\ \E text \in DatabaseErrorTexts : ConnectFails(DatabaseError(text))
       \/ /\ connect_pc' = "validate"
          /\ UNCHANGED <<connect_error, connect_response>>
    /\ UNCHANGED <<params, config, player_id, player_result, drawn, generated, store_queries>>

\* ValidatePlayerToken that looks up a token of any length
ValidatePlayerTokenOfAnyLength ==
    /\ connect_pc = "validate"
    /\ IF params.token = ""
       THEN /\ ConnectFails(InvalidRequest(ErrorCode("EmptyToken"), "The token is empty."))
            /\ UNCHANGED player_id
       ELSE \/ /\ \E text \in DatabaseErrorTexts : ConnectFails(DatabaseError(text))
               /\ UNCHANGED player_id
            \/ /\ ConnectFails(InvalidRequest(ErrorCode("AuthenticationInvalidToken"),
                      "No player has the token '" \o params.token \o "'."))
               /\ UNCHANGED player_id
            \/ /\ player_id' = 1
               /\ connect_pc' = "find"
               /\ UNCHANGED <<connect_error, connect_response>>
    /\ store_queries' = IF params.token = "" THEN store_queries ELSE store_queries + 1
    /\ UNCHANGED <<params, config, player_result, drawn, generated>>

\* line 31 and routes/players.rs, validate_player_token
ValidatePlayerToken ==
    /\ connect_pc = "validate"
    /\ IF params.token = ""
       THEN /\ ConnectFails(InvalidRequest(ErrorCode("EmptyToken"), "The token is empty."))
            /\ UNCHANGED player_id
       ELSE IF Len(params.token) > 64
       THEN /\ ConnectFails(InvalidRequest(ErrorCode("AuthenticationInvalidToken"),
                   "The given token '" \o params.token \o "' is invalid (too long)."))
            /\ UNCHANGED player_id
       ELSE \/ /\ \E text \in DatabaseErrorTexts : ConnectFails(DatabaseError(text))
               /\ UNCHANGED player_id
            \/ /\ ConnectFails(InvalidRequest(ErrorCode("AuthenticationInvalidToken"),
                      "No player has the token '" \o params.token \o "'."))
               /\ UNCHANGED player_id
            \/ /\ player_id' = 1
               /\ connect_pc' = "find"
               /\ UNCHANGED <<connect_error, connect_response>>
    /\ store_queries' = IF params.token = "" \/ Len(params.token) > 64
                        THEN store_queries ELSE store_queries + 1
    /\ UNCHANGED <<params, config, player_result, drawn, generated>>

\* lines 33-49: the row of the player
FindPlayerInfo ==
    /\ connect_pc = "find"
    /\ \/ /\ \E text \in DatabaseErrorTexts : ConnectFails(DatabaseError(text))
          /\ UNCHANGED player_result
       \/ /\ ConnectFails(InvalidRequest(ErrorCode("AuthenticationInvalidToken"),
                 "No player has the id '" \o NatToString(player_id) \o "'."))
          /\ UNCHANGED player_result
       \/ /\ \E row \in PlayerRows : player_result' = row
          /\ connect_pc' = "generate"
          /\ UNCHANGED <<connect_error, connect_response>>
    /\ store_queries' = store_queries + 1
    /\ UNCHANGED <<params, config, player_id, drawn, generated>>

\* the private token game_connect builds, lines 51-61
PrivateTokenOf(api_config, row) ==
    PrivateToken(api_config.game_api_url, api_config.game_api_token,
                 PlayerData(row.uuid, row.nickname))

\* GenerateToken that converts the error of Token::generate with the ? operator
GenerateTokenPropagates ==
    /\ connect_pc = "generate"
    /\ \E os \in OsDraws :
         LET result == generate(config.connection_token_key,
                                config.game_api_token_duration,
                                ServerAddress(config.game_server_address,
                                              config.game_server_port),
                                PrivateTokenOf(config, player_result),
                                os)
         IN  /\ drawn' = os
             /\ generated' = result
             /\ IF result.ok
                THEN /\ connect_response' = [status |-> 200, body |-> result.val]
                     /\ connect_pc' = "responded"
                     /\ UNCHANGED connect_error
                ELSE ConnectFails(ServerError("Internal", ErrorCodeExternal(result.err.kind)))
    /\ UNCHANGED <<params, config, player_id, player_result, store_queries>>

\* lines 51-74: the token is generated and returned
GenerateToken ==
    /\ connect_pc = "generate"
    /\ \E os \in OsDraws :
         LET result == generate(config.connection_token_key,
                                config.game_api_token_duration,
                                ServerAddress(config.game_server_address,
                                              config.game_server_port),
                                PrivateTokenOf(config, player_result),
                                os)
         IN  /\ drawn' = os
             /\ generated' = result
             /\ IF result.ok
                THEN /\ connect_response' = [status |-> 200, body |-> result.val]
                     /\ connect_pc' = "responded"
                     /\ UNCHANGED connect_error
                ELSE ConnectFails(ServerError("Internal", ErrorCode("TokenGenerationFailed")))
    /\ UNCHANGED <<params, config, player_id, player_result, store_queries>>

ConnectNext ==
    \/ GetClient
    \/ ValidatePlayerToken
    \/ FindPlayerInfo
    \/ GenerateToken

(***************************************************************************)
(* POST /v1/players: create of routes/players.rs and route_player_create    *)
(* of players.rs.  The nickname is a sequence of Unicode scalar values; the *)
(* database holds the rows of players and player_tokens, and a transaction  *)
(* holds the rows it inserted until it is committed.                        *)
(***************************************************************************)
VARIABLES create_pc, create_handler, create_params, create_config, create_uuid,
          create_token, players, player_tokens, transaction, store_ops,
          create_error, create_response

create_vars == <<create_pc, create_handler, create_params, create_config, create_uuid,
                 create_token, players, player_tokens, transaction, store_ops,
                 create_error, create_response>>

\* submitted nicknames have up to MaxNicknameInput characters
MaxNicknameInput == 3

\* player_nickname_maxlength goes up to MaxNicknameLength
MaxNicknameLength == 2

\* char::is_whitespace, for the characters below U+0800
is_whitespace(c) == c \in {9, 10, 11, 12, 13, 32, 133, 160}

\* str::trim
trim(str) ==
    LET kept == {i \in 1..Len(str) : ~is_whitespace(str[i])}
    IN  IF kept = {} THEN <<>>
        ELSE SubSeq(str, Min(kept), CHOOSE i \in kept : \A j \in kept : j <= i)

\* char::is_ascii_alphanumeric
is_ascii_alphanumeric(c) == c \in (48..57) \cup (65..90) \cup (97..122)

\* the InvalidRequest of lines 32-58 that checks the characters before the length
nickname_rejection_chars_first(nickname, player_nickname_maxlength, player_allow_non_ascii) ==
    IF nickname = <<>>
    THEN Some(InvalidRequest(ErrorCode("NicknameEmpty"), "Nickname cannot be empty"))
    ELSE IF /\ ~player_allow_non_ascii
            /\ ~\A i \in 1..Len(nickname) :
                   is_ascii_alphanumeric(nickname[i]) \/ nickname[i] = 32 \/ nickname[i] = 95
    THEN Some(InvalidRequest(ErrorCode("NicknameForbiddenCharacters"),
                             "Nickname can only have ascii characters"))
    ELSE IF Len(as_bytes(nickname)) > player_nickname_maxlength
    THEN Some(InvalidRequest(ErrorCode("NicknameToolong"),
                             "Nickname size exceeds maximum size of "
                                 \o NatToString(player_nickname_maxlength)))
    ELSE None

\* lines 32-58: the InvalidRequest the trimmed nickname is rejected with, if any
nickname_rejection(nickname, player_nickname_maxlength, player_allow_non_ascii) ==
    IF nickname = <<>>
    THEN Some(InvalidRequest(ErrorCode("NicknameEmpty"), "Nickname cannot be empty"))
    ELSE IF Len(as_bytes(nickname)) > player_nickname_maxlength
    THEN Some(InvalidRequest(ErrorCode("NicknameToolong"),
                             "Nickname size exceeds maximum size of "
                                 \o NatToString(player_nickname_maxlength)))
    ELSE IF /\ ~player_allow_non_ascii
            /\ ~\A i \in 1..Len(nickname) :
                   is_ascii_alphanumeric(nickname[i]) \/ nickname[i] = 32 \/ nickname[i] = 95
    THEN Some(InvalidRequest(ErrorCode("NicknameForbiddenCharacters"),
                             "Nickname can only have ascii characters"))
    ELSE None

\* " ", "!", "_", "a" and "é"
NicknameInputChars == {32, 33, 95, 97, 233}

NicknameInputs == UNION {[1..n -> NicknameInputChars] : n \in 0..MaxNicknameInput}

CreateConfigs ==
    {[player_nickname_maxlength |-> maxlength, player_allow_non_ascii |-> allow] :
        maxlength \in 1..MaxNicknameLength, allow \in BOOLEAN}

HexDigits == "0123456789abcdef"

HexByte(b) ==
    SubSeq(HexDigits, (b \div 16) + 1, (b \div 16) + 1) \o SubSeq(HexDigits, (b % 16) + 1, (b % 16) + 1)

RECURSIVE HexBytes(_)
HexBytes(bytes) == IF bytes = <<>> THEN "" ELSE HexByte(Head(bytes)) \o HexBytes(Tail(bytes))

\* Uuid::to_string: the hyphenated lower-case form
uuid_to_string(uuid) ==
    HexBytes(SubSeq(uuid, 1, 4)) \o "-" \o HexBytes(SubSeq(uuid, 5, 6)) \o "-"
        \o HexBytes(SubSeq(uuid, 7, 8)) \o "-" \o HexBytes(SubSeq(uuid, 9, 10)) \o "-"
        \o HexBytes(SubSeq(uuid, 11, 16))

Base64Alphabet == "ABCDEFGHIJKLMNOPQRSTUVWXYZabcdefghijklmnopqrstuvwxyz0123456789+/"

Base64Char(v) == SubSeq(Base64Alphabet, v + 1, v + 1)

RECURSIVE Base64Encode(_)
\* BASE64_STANDARD.encode: three bytes give four characters, the rest is padded
Base64Encode(bytes) ==
    IF Len(bytes) = 0 THEN ""
    ELSE IF Len(bytes) = 1
    THEN Base64Char(bytes[1] \div 4) \o Base64Char((bytes[1] % 4) * 16) \o "=="
    ELSE IF Len(bytes) = 2
    THEN Base64Char(bytes[1] \div 4)
             \o Base64Char((bytes[1] % 4) * 16 + bytes[2] \div 16)
             \o Base64Char((bytes[2] % 16) * 4) \o "="
    ELSE Base64Char(bytes[1] \div 4)
             \o Base64Char((bytes[1] % 4) * 16 + bytes[2] \div 16)
             \o Base64Char((bytes[2] % 16) * 4 + bytes[3] \div 64)
             \o Base64Char(bytes[3] % 64)
             \o Base64Encode(SubSeq(bytes, 4, Len(bytes)))

\* error_from!, lines 149-155: rand_core::Error becomes an io::Error, which
\* becomes a server error of cause Internal that carries its text
\* from_io_error that classifies the failure as one of the database
from_io_error_as_database(text) == ServerError("Database", ErrorCodeExternal(text))

\* errors/api.rs lines 150-155: From<std::io::Error> for RouteError
from_io_error(text) == ServerError("Internal", ErrorCodeExternal(text))

from_rand_core_error(text) == from_io_error(text)

RandomSourceErrorText == "getrandom: this target is not supported"

PlayerRow(id, uuid, nickname) == [id |-> id, uuid |-> uuid, nickname |-> nickname]

TokenRow(token, id) == [token |-> token, player_id |-> id]

\* the player the tables may hold before the request
ExistingPlayer == PlayerRow(1, [i \in 1..16 |-> i], <<98>>)

ExistingToken == TokenRow(Base64Encode(KeyFrom(200)), 1)

NoTransaction == [open |-> FALSE, players |-> <<>>, player_tokens |-> <<>>]

NoUuid == <<>>

CreateHandlers == {"create", "route_player_create"}

CreateIdle ==
    /\ create_pc = "idle"
    /\ create_handler = "create"
    /\ create_params = [nickname |-> <<>>]
    /\ create_config = [player_nickname_maxlength |-> 1, player_allow_non_ascii |-> FALSE]
    /\ create_uuid = NoUuid
    /\ create_token = ""
    /\ players = <<>>
    /\ player_tokens = <<>>
    /\ transaction = NoTransaction
    /\ store_ops = 0
    /\ create_error = NoRouteError
    /\ create_response = NoResponse

CreateInit ==
    /\ create_pc = "idle"
    /\ create_handler \in CreateHandlers
    /\ create_params \in {[nickname |-> nickname] : nickname \in NicknameInputs}
    /\ create_config \in CreateConfigs
    /\ create_uuid = NoUuid
    /\ create_token = ""
    /\ \/ players = <<>> /\ player_tokens = <<>>
       \/ players = <<ExistingPlayer>> /\ player_tokens = <<ExistingToken>>
    /\ transaction = NoTransaction
    /\ store_ops = 0
    /\ create_error = NoRouteError
    /\ create_response = NoResponse

\* the handler returns Err(route_error); a transaction that was not
\* committed is rolled back when it is dropped
CreateFails(route_error) ==
    /\ create_error' = route_error
    /\ create_response' = error_response(route_error)
    /\ transaction' = NoTransaction
    /\ create_pc' = "responded"

\* lines 30-60: the nickname is trimmed and checked, the UUID is drawn
CreateValidate ==
    /\ create_pc = "idle"
    /\ LET nickname == trim(create_params.nickname)
           rejection == nickname_rejection(nickname,
                                           create_config.player_nickname_maxlength,
                                           create_config.player_allow_non_ascii)
       IN  IF rejection # None
           THEN /\ CreateFails(rejection[1])
                /\ UNCHANGED create_uuid
           ELSE /\ create_uuid' = PlayerUuid
                /\ create_pc' = "get_client"
                /\ UNCHANGED <<create_error, create_response, transaction>>
    /\ UNCHANGED <<create_handler, create_params, create_config, create_token, players,
                   player_tokens, store_ops>>

\* line 62: pg_pool.get().await?
CreateGetClient ==
    /\ create_pc = "get_client"
    /\ store_ops' = store_ops + 1
    /\ \/ \E text \in DatabaseErrorTexts : CreateFails(DatabaseError(text))
       \/ /\ create_pc' = "prepare"
          /\ UNCHANGED <<create_error, create_response, transaction>>
    /\ UNCHANGED <<create_handler, create_params, create_config, create_uuid, create_token,
                   players, player_tokens>>

\* lines 64-81: both statements are prepared, then the token is drawn
CreatePrepare ==
    /\ create_pc = "prepare"
    /\ store_ops' = store_ops + 1
    /\ \/ /\ \E text \in DatabaseErrorTexts : CreateFails(DatabaseError(text))
          /\ UNCHANGED create_token
       \/ /\ CreateFails(from_rand_core_error(RandomSourceErrorText))
          /\ UNCHANGED create_token
       \/ /\ \E first \in {0, 100} : create_token' = Base64Encode(KeyFrom(first))
          /\ create_pc' = "begin"
          /\ UNCHANGED <<create_error, create_response, transaction>>
    /\ UNCHANGED <<create_handler, create_params, create_config, create_uuid, players,
                   player_tokens>>

\* line 83: pg_client.transaction().await?
CreateBegin ==
    /\ create_pc = "begin"
    /\ store_ops' = store_ops + 1
    /\ \/ \E text \in DatabaseErrorTexts : CreateFails(DatabaseError(text))
       \/ /\ transaction' = [open |-> TRUE, players |-> <<>>, player_tokens |-> <<>>]
          /\ create_pc' = "insert_player"
          /\ UNCHANGED <<create_error, create_response>>
    /\ UNCHANGED <<create_handler, create_params, create_config, create_uuid, create_token,
                   players, player_tokens>>

\* the id the sequence of players gives to the next row
NextPlayerId == Len(players) + Len(transaction.players) + 1

\* lines 84-88: the player is inserted in the transaction and its id read
CreateInsertPlayer ==
    /\ create_pc = "insert_player"
    /\ store_ops' = store_ops + 1
    /\ \/ \E text \in DatabaseErrorTexts : CreateFails(DatabaseError(text))
       \/ /\ transaction' =
                [transaction EXCEPT !.players =
                    Append(@, PlayerRow(NextPlayerId, create_uuid,
                                        trim(create_params.nickname)))]
          /\ create_pc' = "insert_token"
          /\ UNCHANGED <<create_error, create_response>>
    /\ UNCHANGED <<create_handler, create_params, create_config, create_uuid, create_token,
                   players, player_tokens>>

\* lines 90-92: the token is inserted in the transaction
CreateInsertToken ==
    /\ create_pc = "insert_token"
    /\ store_ops' = store_ops + 1
    /\ \/ \E text \in DatabaseErrorTexts : CreateFails(DatabaseError(text))
       \/ /\ transaction' =
                [transaction EXCEPT !.player_tokens =
                    Append(@, TokenRow(create_token,
                                       transaction.players[Len(transaction.players)].id))]
          /\ create_pc' = "commit"
          /\ UNCHANGED <<create_error, create_response>>
    /\ UNCHANGED <<create_handler, create_params, create_config, create_uuid, create_token,
                   players, player_tokens>>

\* the answer of a created player, lines 96-99
CreatePlayerResponse(uuid, token) ==
    [status |-> 200, body |-> [uuid |-> uuid_to_string(uuid), token |-> token]]

\* lines 94-99: the transaction is committed; create answers, while
\* route_player_create of players.rs goes on
CreateCommit ==
    /\ create_pc = "commit"
    /\ store_ops' = store_ops + 1
    /\ \/ /\ \E text \in DatabaseErrorTexts : CreateFails(DatabaseError(text))
          /\ UNCHANGED <<players, player_tokens>>
       \/ /\ players' = players \o transaction.players
          /\ player_tokens' = player_tokens \o transaction.player_tokens
          /\ transaction' = NoTransaction
          /\ IF create_handler = "create"
             THEN /\ create_response' = CreatePlayerResponse(create_uuid, create_token)
                  /\ create_pc' = "responded"
             ELSE /\ create_pc' = "insert_again"
                  /\ UNCHANGED create_response
          /\ UNCHANGED create_error
    /\ UNCHANGED <<create_handler, create_params, create_config, create_uuid, create_token>>

\* players.rs, lines 121-128: route_player_create runs the insert of the
\* player once more, outside the transaction, before it answers
RoutePlayerCreateInsertAgain ==
    /\ create_pc = "insert_again"
    /\ store_ops' = store_ops + 1
    /\ \/ /\ \E text \in DatabaseErrorTexts : CreateFails(DatabaseError(text))
          /\ UNCHANGED players
       \/ /\ players' = Append(players, PlayerRow(Len(players) + 1, create_uuid,
                                                  trim(create_params.nickname)))
          /\ create_response' = CreatePlayerResponse(create_uuid, create_token)
          /\ create_pc' = "responded"
          /\ UNCHANGED <<create_error, transaction>>
    /\ UNCHANGED <<create_handler, create_params, create_config, create_uuid, create_token,
                   player_tokens>>

CreateNext ==
    \/ CreateValidate
    \/ CreateGetClient
    \/ CreatePrepare
    \/ CreateBegin
    \/ CreateInsertPlayer
    \/ CreateInsertToken
    \/ CreateCommit
    \/ RoutePlayerCreateInsertAgain

vars == <<fetcher_vars, route_vars, text_vars, connect_vars, create_vars>>

Init == FetcherInit /\ RouteInit /\ TextIdle /\ ConnectIdle /\ CreateIdle

Next == RouteNext /\ UNCHANGED <<fetcher_vars, fetchable, text_vars, connect_vars, create_vars>>

Spec == Init /\ [][Next]_vars

\* the scheduling of game_version: the handler that holds the mutex, the only
\* one that can take a step, goes on to its next lookup, and every fetch
\* invoked returns; the mutex is handed to the longest waiting request by the
\* step that releases it
HandlerStep(r) ==
    UpdaterLookup(r) \/ UpdaterFetched(r) \/ GameLookup(r) \/ GameFetched(r)

RouteFairness == WF_vars(Next /\ \E r \in Requests : HandlerStep(r))

SpecLive == Init /\ [][Next]_vars /\ RouteFairness

SpecFetch ==
    Init /\ [][FetcherNext /\ UNCHANGED <<route_vars, text_vars, connect_vars, create_vars>>]_vars

InitText == FetcherInit /\ RouteInit /\ TextInit /\ ConnectIdle /\ CreateIdle

SpecText ==
    InitText /\ [][TextNext /\ UNCHANGED <<fetcher_vars, route_vars, connect_vars, create_vars>>]_vars

InitConnect == FetcherInit /\ RouteInit /\ TextIdle /\ ConnectInit /\ CreateIdle

SpecConnect ==
    InitConnect
        /\ [][ConnectNext /\ UNCHANGED <<fetcher_vars, route_vars, text_vars, create_vars>>]_vars

InitCreate == FetcherInit /\ RouteInit /\ TextIdle /\ ConnectIdle /\ CreateInit

SpecCreate ==
    InitCreate
        /\ [][CreateNext /\ UNCHANGED <<fetcher_vars, route_vars, text_vars, connect_vars>>]_vars

(***************************************************************************)
(* What a listing contains, stated on the listing itself.                   *)
(***************************************************************************)
Eligible(r) == ~r.prerelease /\ VersionParse(r.tag_name).ok

EligibleIndices(listing) == {i \in 1..Len(listing) : Eligible(listing[i])}

\* the release has an asset that is no checksum file and whose platform is key
HasPlatform(r, key) ==
    \E j \in 1..Len(r.assets) :
        /\ ~ends_with(r.assets[j].name, ".sha256")
        /\ remove_game_suffix(r.assets[j].name) = key

\* the release has an asset, checksum file or not, whose platform is key
HasPlatformFile(r, key) ==
    \E j \in 1..Len(r.assets) : remove_game_suffix(r.assets[j].name) = key

PlatformsOfRelease(r) ==
    {remove_game_suffix(r.assets[j].name) :
        j \in {k \in 1..Len(r.assets) : ~ends_with(r.assets[k].name, ".sha256")}}

PlatformsOf(listing) ==
    UNION {PlatformsOfRelease(listing[i]) : i \in EligibleIndices(listing)}

ReleasesWith(listing, key) ==
    {i \in EligibleIndices(listing) : HasPlatform(listing[i], key)}

\* the Asset was built from an asset of release r whose platform is key
ComesFrom(asset, r, key) ==
    /\ asset.version = VersionParse(r.tag_name).val
    /\ \E j \in 1..Len(r.assets) :
         /\ asset.name = r.assets[j].name
         /\ asset.download_url = r.assets[j].browser_download_url
         /\ asset.size = r.assets[j].size
         /\ ~ends_with(r.assets[j].name, ".sha256")
         /\ remove_game_suffix(r.assets[j].name) = key

GameDone == f_op = "game" /\ f_pc = "done"

UpdaterDone == f_op = "updater" /\ f_pc = "done"

HostFailed == ~f_result.ok /\ is(f_result.err, "octocrab::Error")

\* the platforms of a returned GameRelease, the assets bundle included
ResultPlatforms(game_release) == (DOMAIN game_release.binaries) \cup {"assets"}

ResultEntry(game_release, key) ==
    IF key = "assets" THEN game_release.assets ELSE game_release.binaries[key]

TransportFailures ==
    {i \in 1..Len(checksums) : ~checksums[i].ok /\ is(checksums[i].err, "reqwest::Error")}

HardFailures ==
    {i \in 1..Len(checksums) : ~checksums[i].ok /\ ~is(checksums[i].err, "reqwest::Error")}

(***************************************************************************)
(* C1: a returned game release has exactly the platforms that some          *)
(* eligible release ships as a non-checksum asset, and the asset recorded   *)
(* for a platform is one of the first eligible release, in listing order,   *)
(* that ships the platform.                                                 *)
(***************************************************************************)
C1_BackfillFromNewest ==
    (GameDone /\ f_result.ok) =>
        /\ ResultPlatforms(f_result.val) = PlatformsOf(releases)
        /\ \A key \in PlatformsOf(releases) :
             ComesFrom(ResultEntry(f_result.val, key),
                       releases[Min(ReleasesWith(releases, key))], key)

\* a release came back in which one platform was back-filled from an older
\* release and another platform, shipped by two releases, kept the newer asset
C1_Witness ==
    /\ GameDone /\ f_result.ok
    /\ \E key \in PlatformsOf(releases) :
         Min(ReleasesWith(releases, key)) > Min(EligibleIndices(releases))
    /\ \E key \in PlatformsOf(releases) : Cardinality(ReleasesWith(releases, key)) >= 2

(***************************************************************************)
(* C2: the version of the run is the version of the first release of the    *)
(* listing that is no pre-release and whose tag parses, other releases are  *)
(* skipped, and the run never fails with InvalidVersion.                    *)
(***************************************************************************)
C2_VersionOfFirstEligible ==
    /\ (f_op = "game" /\ f_pc # "idle" /\ EligibleIndices(releases) # {}) =>
          /\ latest_version =
                VersionParse(releases[Min(EligibleIndices(releases))].tag_name).val
          /\ ~(f_pc = "done" /\ ~f_result.ok /\ f_result.err = NoReleaseFound
               /\ \E i \in EligibleIndices(releases) : HasPlatform(releases[i], "assets"))
    /\ (GameDone /\ f_result.ok) =>
          /\ EligibleIndices(releases) # {}
          /\ f_result.val.version =
                VersionParse(releases[Min(EligibleIndices(releases))].tag_name).val
    /\ (GameDone /\ ~f_result.ok) => f_result.err.kind # "InvalidVersion"

\* a release came back although a skipped release precedes the first
\* eligible one and another skipped release follows it
C2_Witness ==
    /\ GameDone /\ f_result.ok
    /\ Min(EligibleIndices(releases)) > 1
    /\ \E i \in 1..Len(releases) :
         i > Min(EligibleIndices(releases)) /\ ~Eligible(releases[i])
    /\ \E i \in 1..Len(releases) : ~VersionParse(releases[i].tag_name).ok

(***************************************************************************)
(* C3: when the assets bundle is taken out of the merged working map, the   *)
(* returned binaries are the working map without the key "assets", the      *)
(* returned assets are the entry the working map held under "assets", and   *)
(* assets_version is the version of that entry, which is the version of     *)
(* the eligible release the bundle was downloaded from.                     *)
(***************************************************************************)
C3_AssetsExtracted ==
    [][(f_op = "game" /\ f_pc = "merged" /\ f_pc' = "done" /\ f_result'.ok) =>
          /\ contains_key(binaries, "assets")
          /\ ~contains_key(f_result'.val.binaries, "assets")
          /\ f_result'.val.binaries =
                [k \in (DOMAIN binaries) \ {"assets"} |-> binaries[k]]
          /\ f_result'.val.assets = binaries["assets"]
          /\ f_result'.val.assets_version = f_result'.val.assets.version
          /\ \E i \in EligibleIndices(releases) :
                /\ f_result'.val.assets_version = VersionParse(releases[i].tag_name).val
                /\ ComesFrom(f_result'.val.assets, releases[i], "assets")
      ]_vars

\* a release came back whose assets bundle is older than its version
C3_Witness ==
    /\ GameDone /\ f_result.ok
    /\ f_result.val.assets_version # f_result.val.version
    /\ DOMAIN f_result.val.binaries # {}

(***************************************************************************)
(* C4 as stated: without a checksum error, and once the listing has         *)
(* arrived, the run fails with NoReleaseFound exactly when the listing has  *)
(* no eligible release or no eligible release has an asset whose platform   *)
(* key is "assets"; otherwise it returns a release.                         *)
(***************************************************************************)
C4_AsStated ==
    (GameDone /\ ~HostFailed /\ HardFailures = {}) =>
        IF \/ EligibleIndices(releases) = {}
           \/ ~\E i \in EligibleIndices(releases) : HasPlatformFile(releases[i], "assets")
        THEN ~f_result.ok /\ f_result.err = NoReleaseFound
        ELSE f_result.ok

(***************************************************************************)
(* C4 amended: without a checksum error, and once the listing has arrived,  *)
(* the run fails with NoReleaseFound exactly when the listing has no        *)
(* eligible release or no eligible release has an asset that is no .sha256  *)
(* checksum file and whose platform key is "assets"; otherwise it returns   *)
(* a release.                                                               *)
(***************************************************************************)
C4_NoReleaseFound ==
    (GameDone /\ ~HostFailed /\ HardFailures = {}) =>
        IF \/ EligibleIndices(releases) = {}
           \/ ~\E i \in EligibleIndices(releases) : HasPlatform(releases[i], "assets")
        THEN ~f_result.ok /\ f_result.err = NoReleaseFound
        ELSE f_result.ok

\* the run failed with NoReleaseFound although the listing has eligible
\* releases with assets, one of them a checksum file of the assets bundle
C4_Witness ==
    /\ GameDone /\ ~f_result.ok /\ f_result.err = NoReleaseFound
    /\ HardFailures = {}
    /\ Cardinality(EligibleIndices(releases)) >= 2
    /\ resolve_calls # <<>>
    /\ \E i \in EligibleIndices(releases) : HasPlatformFile(releases[i], "assets")

(***************************************************************************)
(* C5: when a run of either operation is over, a checksum failure that is   *)
(* no transport failure on any resolved asset has made the run fail with    *)
(* such an error; with transport failures only, the run did not fail        *)
(* because of them, and every asset whose checksum request failed in        *)
(* transport is recorded under its platform with sha256 absent (unless a    *)
(* later asset of the same release has the same platform).                  *)
(***************************************************************************)
RecordedAssets ==
    IF f_op = "game"
    THEN [k \in ResultPlatforms(f_result.val) |-> ResultEntry(f_result.val, k)]
    ELSE f_result.val

C5_ChecksumFailures ==
    (f_pc = "done" /\ ~HostFailed) =>
        /\ HardFailures # {} =>
              /\ ~f_result.ok
              /\ \E i \in HardFailures : f_result.err = checksums[i].err
        /\ (HardFailures = {} /\ ~f_result.ok) =>
              /\ f_result.err \in {NoReleaseFound, InvalidVersion}
              /\ f_result.err = NoReleaseFound =>
                    ~\E i \in 1..Len(resolve_calls) :
                        remove_game_suffix(resolve_calls[i].name) = "assets"
        /\ (HardFailures = {} /\ f_result.ok) =>
              \A i \in 1..Len(resolve_calls) :
                 LET key == remove_game_suffix(resolve_calls[i].name)
                 IN  (~\E j \in (i + 1)..Len(resolve_calls) :
                         remove_game_suffix(resolve_calls[j].name) = key) =>
                        /\ contains_key(RecordedAssets, key)
                        /\ RecordedAssets[key] =
                              [resolve_calls[i] EXCEPT !.sha256 =
                                  IF i \in TransportFailures THEN None
                                  ELSE Some(checksums[i].val)]

\* a game release came back with an asset of an older release whose
\* checksum request failed in transport
C5_Witness ==
    /\ GameDone /\ f_result.ok
    /\ \E i \in TransportFailures :
         /\ resolve_calls[i].version # latest_version
         /\ RecordedAssets[remove_game_suffix(resolve_calls[i].name)].sha256 = None
    /\ \E i \in 1..Len(checksums) : checksums[i].ok

(***************************************************************************)
(* What the log of the cache says.                                          *)
(***************************************************************************)
\* the entries before position j in which the producer stored a value for key
StoresBefore(j, key) ==
    {i \in 1..(j - 1) : /\ cache_log[i].key = key
                        /\ ~cache_log[i].hit
                        /\ cache_log[i].result.ok}

\* those of them whose value was younger than the lifespan, counted from the
\* instant it was stamped with, when the lookup of entry j was made
StoresInWindow(j) ==
    {i \in StoresBefore(j, cache_log[j].key) :
        cache_log[j].invoked_at - cache_log[i].stamp < CacheLifespan}

Entry(store, key) == IF contains_key(store, key) THEN Some(store[key]) ELSE None

InUpdaterCycle(r) == pc[r] \in {"updater_lookup", "fetching_updater"}

InGameCycle(r) == pc[r] \in {"game_lookup", "fetching_game"}

LogOf(r, key) ==
    {i \in 1..Len(cache_log) : cache_log[i].request = r /\ cache_log[i].key = key}

(***************************************************************************)
(* C6: a lookup made while a value stored for its key is younger than the   *)
(* lifespan returns that value without invoking the producer, and a lookup  *)
(* returns a cached value only then; so after a successful fetch the        *)
(* producer of the key is not invoked again within the lifespan and every   *)
(* caller in that window observes the value of that fetch.                  *)
(***************************************************************************)
C6_CacheHit ==
    \A j \in 1..Len(cache_log) :
        /\ StoresInWindow(j) # {} =>
              /\ cache_log[j].hit
              /\ \A i \in StoresInWindow(j) : cache_log[j].result = cache_log[i].result
        /\ cache_log[j].hit => StoresInWindow(j) # {}

\* two requests got the same value for a key, the first from the producer
\* and the second, a second later, from the cache
C6_Witness ==
    \E j \in 1..Len(cache_log) : \E i \in StoresInWindow(j) :
        /\ cache_log[j].hit
        /\ cache_log[j].request # cache_log[i].request
        /\ cache_log[j].at > cache_log[i].at
        /\ cache_log[j].result = cache_log[i].result

(***************************************************************************)
(* C7: a producer that fails leaves the store of the cache as it was, and   *)
(* the next lookup of that key invokes the producer again; a producer that  *)
(* succeeds replaces the entry of its key, and only that one, by its        *)
(* result, stamped with an instant of the invocation.                       *)
(***************************************************************************)
FetchReturns(r, key) ==
    /\ pc[r] = (IF key = UpdaterKey THEN "fetching_updater" ELSE "fetching_game")
    /\ pc'[r] # pc[r]

RetriedAfterFailure ==
    \A i \in 1..Len(cache_log) : \A j \in (i + 1)..Len(cache_log) :
        ( /\ cache_log[i].key = cache_log[j].key
          /\ ~cache_log[i].hit /\ ~cache_log[i].result.ok
          /\ ~\E k \in (i + 1)..(j - 1) : cache_log[k].key = cache_log[i].key )
        => ~cache_log[j].hit

C7_NoNegativeCaching ==
    /\ [][\A r \in Requests : \A key \in {UpdaterKey, GameKey} :
            FetchReturns(r, key) =>
               LET returned == cache_log'[Len(cache_log')]
               IN  /\ Len(cache_log') = Len(cache_log) + 1
                   /\ returned.key = key /\ ~returned.hit
                   /\ IF returned.result.ok
                      THEN /\ contains_key(cache', key)
                           /\ cache'[key].value = returned.result.val
                           /\ cache'[key].instant = returned.stamp
                           /\ cache'[key].instant \in invoked_at[r]..now
                           /\ \A other \in {UpdaterKey, GameKey} \ {key} :
                                Entry(cache', other) = Entry(cache, other)
                      ELSE cache' = cache
         ]_vars
    /\ []RetriedAfterFailure

\* a producer failed while the cache held an expired entry of its key, and
\* the entry is still there
C7_Witness ==
    \E j \in 1..Len(cache_log) :
        /\ ~cache_log[j].hit /\ ~cache_log[j].result.ok
        /\ StoresBefore(j, cache_log[j].key) # {}
        /\ contains_key(cache, cache_log[j].key)

(***************************************************************************)
(* C8: at most one producer invocation is in flight at any time, across     *)
(* both keys, and a request between its first lookup and its response       *)
(* holds the cache mutex.                                                   *)
(***************************************************************************)
C8_OneFetchInFlight ==
    /\ Cardinality({r \in Requests : pc[r] \in {"fetching_updater", "fetching_game"}}) <= 1
    /\ \A r \in Requests : (InUpdaterCycle(r) \/ InGameCycle(r)) => lock_holder = r

\* a fetch is in flight while another request waits for the mutex
C8_Witness ==
    \E r \in Requests : \E q \in Requests :
        /\ pc[r] = "fetching_game"
        /\ pc[q] = "waiting"
        /\ cache_fresh(cache, UpdaterKey, now)

(***************************************************************************)
(* C9: no step that looks up, fetches or stores one key, and no passing of  *)
(* time, removes or changes the entry of the other key; when the game       *)
(* fetch of a request fails, the updater entry the request used is still    *)
(* cached.                                                                  *)
(***************************************************************************)
C9_KeysIndependent ==
    [][/\ (\E r \in Requests : InUpdaterCycle(r) /\ pc'[r] # pc[r]) =>
             Entry(cache', GameKey) = Entry(cache, GameKey)
       /\ (\E r \in Requests : InGameCycle(r) /\ pc'[r] # pc[r]) =>
             Entry(cache', UpdaterKey) = Entry(cache, UpdaterKey)
       /\ now' # now => cache' = cache
       /\ \A r \in Requests :
             (pc[r] = "fetching_game" /\ pc'[r] = "responded" /\ response'[r].status = 500) =>
                /\ contains_key(cache', UpdaterKey)
                /\ cache'[UpdaterKey].value = CachedUpdater(updater_release[r][1])
      ]_vars

\* a request was answered 500 for the game release after it had fetched the
\* updater release itself, and a later request found the updater release cached
C9_Witness ==
    \E r \in Requests : \E q \in Requests :
        /\ pc[r] = "responded" /\ response[r].status = 500
        /\ \E i \in LogOf(r, UpdaterKey) : ~cache_log[i].hit /\ cache_log[i].result.ok
        /\ \E i \in LogOf(r, GameKey) : ~cache_log[i].result.ok
        /\ \E j \in LogOf(q, UpdaterKey) : cache_log[j].hit /\ cache_log[j].at > 0
        /\ ~contains_key(cache, GameKey)

(***************************************************************************)
(* C10: the response of a request for platform X.  If its updater lookup    *)
(* failed: 500 with code fetch_updater_release, and no game lookup was      *)
(* made.  Otherwise, if its game lookup failed: 500 with code               *)
(* fetch_game_release.  Otherwise, if the updater release has no entry      *)
(* "X_<updater_filename>" or the game binaries have no entry X: 404.        *)
(* Otherwise 200 with the game assets, assets_version, the binary of X,     *)
(* the updater of X and the game version.                                   *)
(***************************************************************************)
C10_ResponseOutcome ==
    \A r \in Requests : pc[r] = "responded" =>
        /\ Cardinality(LogOf(r, UpdaterKey)) = 1
        /\ LET updater == cache_log[CHOOSE i \in LogOf(r, UpdaterKey) : TRUE].result
           IN  IF ~updater.ok
               THEN /\ response[r].status = 500
                    /\ response[r].body.err_code = "fetch_updater_release"
                    /\ LogOf(r, GameKey) = {}
               ELSE /\ Cardinality(LogOf(r, GameKey)) = 1
                    /\ LET game == cache_log[CHOOSE i \in LogOf(r, GameKey) : TRUE].result
                       IN  IF ~game.ok
                           THEN /\ response[r].status = 500
                                /\ response[r].body.err_code = "fetch_game_release"
                           ELSE LET updaters == updater.val.release
                                    release == game.val.release
                                    updater_key == platform[r] \o "_" \o UpdaterFilename
                                IN  IF \/ updater_key \notin DOMAIN updaters
                                       \/ platform[r] \notin DOMAIN release.binaries
                                    THEN response[r].status = 404
                                    ELSE /\ response[r].status = 200
                                         /\ response[r].body.assets.download_url =
                                               release.assets.download_url
                                         /\ response[r].body.assets_version =
                                               version_to_string(release.assets_version)
                                         /\ response[r].body.binaries.download_url =
                                               release.binaries[platform[r]].download_url
                                         /\ response[r].body.updater.download_url =
                                               updaters[updater_key].download_url
                                         /\ response[r].body.version =
                                               version_to_string(release.version)

\* two requests for the same platform were answered 200 and 404: the game
\* release was fetched again in between
C10_Witness ==
    \E r \in Requests : \E q \in Requests :
        /\ pc[r] = "responded" /\ response[r].status = 200
        /\ pc[q] = "responded" /\ response[q].status = 404
        /\ platform[q] = platform[r]

(***************************************************************************)
(* C11: parse_response on a body made of n whitespace-separated tokens:     *)
(* when n is not 2 the result is InvalidSha256(n); when n is 2 and the      *)
(* second token is "*" followed by the asset name the result is the first   *)
(* token unchanged; when n is 2 and the second token is anything else the   *)
(* result is WrongChecksum.                                                 *)
(***************************************************************************)
C11_ParseResponse ==
    (t_pc = "done" /\ t_input.op = "parse_response") =>
        LET tokens == t_input.tokens
        IN  IF Len(tokens) # 2
            THEN t_output = Err(InvalidSha256(Len(tokens)))
            ELSE IF tokens[2] = "*" \o t_input.asset_name
                 THEN t_output = Ok(tokens[1])
                 ELSE t_output = Err(WrongChecksum)

\* a padded body whose tokens are separated by a tab and a line feed gave
\* the hash
C11_Witness ==
    /\ t_pc = "done" /\ t_input.op = "parse_response"
    /\ t_input.response = " " \o Sha256Hash \o "\t\n" \o "*assets.zip" \o "\n"
    /\ t_output = Ok(Sha256Hash)

(***************************************************************************)
(* C12: the platform key of a file name is the name without everything      *)
(* from its first '.' on and then without a trailing "_releasedbg", and     *)
(* nothing else is removed.                                                 *)
(***************************************************************************)
C12_AsStated ==
    (t_pc = "done" /\ t_input.op = "remove_game_suffix") =>
        LET base == t_input.stem \o (IF t_input.marked THEN "_releasedbg" ELSE "")
        IN  t_output = Ok(IF ends_with(base, "_releasedbg")
                          THEN SubSeq(base, 1, Len(base) - Len("_releasedbg"))
                          ELSE base)

(***************************************************************************)
(* What the updater release contains, stated on the release itself.          *)
(***************************************************************************)
NonChecksumAssets(r) ==
    {j \in 1..Len(r.assets) : ~ends_with(r.assets[j].name, ".sha256")}

\* the checksum get_latest_updater_release got for the asset with this URL:
\* absent after a transport failure
ResolvedChecksum(download_url) ==
    LET i == CHOOSE k \in 1..Len(resolve_calls) : resolve_calls[k].download_url = download_url
    IN  IF i \in TransportFailures THEN None ELSE Some(checksums[i].val)

\* the entry of the result is the asset j of release r with its version and checksum
IsAssetOf(entry, r, j) ==
    /\ entry.name = r.assets[j].name
    /\ entry.download_url = r.assets[j].browser_download_url
    /\ entry.size = r.assets[j].size
    /\ entry.version = VersionParse(r.tag_name).val
    /\ entry.sha256 = ResolvedChecksum(r.assets[j].browser_download_url)

(***************************************************************************)
(* C13 as stated: get_latest_updater_release fails with InvalidVersion      *)
(* when the tag of the release is no version, and otherwise its result      *)
(* maps the platform key of every asset of the release that is no           *)
(* checksum file to that asset.                                             *)
(***************************************************************************)
C13_AsStated ==
    (UpdaterDone /\ ~HostFailed) =>
        /\ ~VersionParse(releases[1].tag_name).ok => f_result = Err(InvalidVersion)
        /\ f_result.ok =>
              \A j \in NonChecksumAssets(releases[1]) :
                 LET key == remove_game_suffix(releases[1].assets[j].name)
                 IN  /\ contains_key(f_result.val, key)
                     /\ IsAssetOf(f_result.val[key], releases[1], j)

(***************************************************************************)
(* C13: get_latest_updater_release resolves the assets of the one release   *)
(* the host answered and of no other; it fails with InvalidVersion when     *)
(* the tag of that release is no version; otherwise the keys of its         *)
(* result are the platform keys of the assets of the release that are no    *)
(* checksum files, "assets" included, and each key is mapped to the last    *)
(* such asset of the release with that key, with the version of the         *)
(* release and its resolved checksum.                                       *)
(***************************************************************************)
C13_UpdaterRelease ==
    (UpdaterDone /\ ~HostFailed) =>
        /\ Len(releases) = 1
        /\ ~VersionParse(releases[1].tag_name).ok =>
              f_result = Err(InvalidVersion) /\ resolve_calls = <<>>
        /\ Len(resolve_calls) <= Cardinality(NonChecksumAssets(releases[1]))
        /\ f_result.ok =>
              /\ DOMAIN f_result.val =
                   {remove_game_suffix(releases[1].assets[j].name) :
                        j \in NonChecksumAssets(releases[1])}
              /\ \A j \in NonChecksumAssets(releases[1]) :
                    LET key == remove_game_suffix(releases[1].assets[j].name)
                    IN  (~\E l \in NonChecksumAssets(releases[1]) :
                            l > j /\ remove_game_suffix(releases[1].assets[l].name) = key)
                        => IsAssetOf(f_result.val[key], releases[1], j)

\* an updater release came back with its assets bundle under "assets" and
\* one checksum absent after a transport failure
C13_Witness ==
    /\ UpdaterDone /\ f_result.ok
    /\ contains_key(f_result.val, "assets")
    /\ Cardinality(DOMAIN f_result.val) = 2
    /\ \E key \in DOMAIN f_result.val : f_result.val[key].sha256 = None
    /\ \E key \in DOMAIN f_result.val : f_result.val[key].sha256 = Some(Sha256Hash)

(***************************************************************************)
(* C14: when the listing of the game releases holds exactly one eligible    *)
(* release and get_latest_game_release returns a release, the keys of its   *)
(* binaries are exactly the platform keys of the assets of that release     *)
(* that are neither checksum files nor the assets bundle, every entry of    *)
(* binaries was built from an asset of that release, and version,           *)
(* assets_version and the assets bundle come from that release.             *)
(***************************************************************************)
C14_SingleRelease ==
    (GameDone /\ f_result.ok /\ Cardinality(EligibleIndices(releases)) = 1) =>
        LET only == releases[CHOOSE i \in EligibleIndices(releases) : TRUE]
            version == VersionParse(only.tag_name).val
        IN  /\ DOMAIN f_result.val.binaries = PlatformsOfRelease(only) \ {"assets"}
            /\ \A key \in DOMAIN f_result.val.binaries :
                  ComesFrom(f_result.val.binaries[key], only, key)
            /\ f_result.val.version = version
            /\ f_result.val.assets_version = version
            /\ ComesFrom(f_result.val.assets, only, "assets")

\* a release came back from a listing whose only eligible release stands
\* between two skipped releases and has binaries next to its bundle
C14_Witness ==
    /\ GameDone /\ f_result.ok
    /\ Cardinality(EligibleIndices(releases)) = 1
    /\ Len(releases) = 3 /\ Eligible(releases[2])
    /\ Cardinality(DOMAIN f_result.val.binaries) = 2

(***************************************************************************)
(* The connection token, stated on the state of game_connect.               *)
(***************************************************************************)
\* Token::generate ran
Generated == generated # NoGenerated

\* the bytes of the private token game_connect hands to Token::generate
Plaintext == private_token_to_bytes(PrivateTokenOf(config, player_result))

\* the additional-data header rebuilt from the clear fields of a token
HeaderOf(token) ==
    additional_data_to_bytes(
        AdditionalTokenData(token.token_version, token.expire_timestamp,
                            token.encryption_keys.client_to_server,
                            token.encryption_keys.server_to_client))

\* headers that differ from the one of the token in one field
AlteredHeaders(token) ==
    {additional_data_to_bytes(
         AdditionalTokenData(token.token_version + 1, token.expire_timestamp,
                             token.encryption_keys.client_to_server,
                             token.encryption_keys.server_to_client)),
     additional_data_to_bytes(
         AdditionalTokenData(token.token_version, token.expire_timestamp + 1,
                             token.encryption_keys.client_to_server,
                             token.encryption_keys.server_to_client)),
     additional_data_to_bytes(
         AdditionalTokenData(token.token_version, token.expire_timestamp,
                             token.encryption_keys.server_to_client,
                             token.encryption_keys.client_to_server))}

(***************************************************************************)
(* C15 as stated: decrypting the private_token_data of a generated token    *)
(* with the token key, the nonce of the token and the header rebuilt from   *)
(* its clear fields gives back exactly the bytes of the private token, and  *)
(* decrypting with a header that differs in a field fails.                  *)
(***************************************************************************)
C15_AsStated ==
    (Generated /\ generated.ok) =>
        /\ decrypt(config.connection_token_key, generated.val.token_nonce,
                   HeaderOf(generated.val), generated.val.private_token_data)
              = Ok(Plaintext)
        /\ \A header \in AlteredHeaders(generated.val) :
              ~decrypt(config.connection_token_key, generated.val.token_nonce,
                       header, generated.val.private_token_data).ok

(***************************************************************************)
(* C16 as stated: the private_token_data of a generated token is 16 bytes   *)
(* longer than the serialized private token, which is the api token and     *)
(* the api URL, each as a 4-byte little-endian length and its UTF-8 bytes,  *)
(* the 16 bytes of the UUID, and the nickname as a 4-byte length and its    *)
(* bytes.                                                                   *)
(***************************************************************************)
C16_AsStated ==
    (Generated /\ generated.ok) =>
        LET api_token == as_bytes(config.game_api_token)
            api_url == as_bytes(config.game_api_url)
            nickname == as_bytes(player_result.nickname)
        IN  /\ Plaintext = LittleEndian(Len(api_token), 4) \o api_token
                              \o LittleEndian(Len(api_url), 4) \o api_url
                              \o to_bytes_le(player_result.uuid)
                              \o LittleEndian(Len(nickname), 4) \o nickname
            /\ Len(generated.val.private_token_data) = Len(Plaintext) + 16
            /\ Len(generated.val.private_token_data) =
                  4 + Len(api_token) + 4 + Len(api_url) + 16 + 4 + Len(nickname) + 16

(***************************************************************************)
(* C17: a wall-clock reading before the epoch makes Token::generate fail    *)
(* with SystemTimeError and no token is returned; in every token returned   *)
(* for the wall-clock reading t0 and the configured duration d,             *)
(* creation_timestamp is t0 in whole seconds and expire_timestamp is        *)
(* t0 + d in whole seconds, so expire_timestamp is not before               *)
(* creation_timestamp and, d being a whole number of seconds, is d seconds  *)
(* after it.                                                                *)
(***************************************************************************)
C17_Timestamps ==
    Generated =>
        /\ drawn.clock < 0 => generated = Err(SystemTimeError)
        /\ generated.ok =>
              /\ drawn.clock >= 0
              /\ generated.val.creation_timestamp = drawn.clock \div TicksPerSecond
              /\ generated.val.expire_timestamp =
                    (drawn.clock + config.game_api_token_duration) \div TicksPerSecond
              /\ generated.val.expire_timestamp >= generated.val.creation_timestamp
              /\ config.game_api_token_duration % TicksPerSecond = 0 =>
                    generated.val.expire_timestamp - generated.val.creation_timestamp
                        = config.game_api_token_duration \div TicksPerSecond

\* a token was returned for a reading that is no whole second and a
\* duration that is not zero
C17_Witness ==
    /\ Generated /\ generated.ok
    /\ drawn.clock % TicksPerSecond # 0
    /\ config.game_api_token_duration > 0
    /\ connect_response.status = 200

\* the additional data the private_token_data of a token was sealed with
SealedHeader(token) ==
    token.private_token_data[Len(token.private_token_data)].associated_data

(***************************************************************************)
(* C18: in every token returned by Token::generate the additional data     *)
(* the private token was sealed with are 76 bytes: the token version 1 on   *)
(* 4 bytes, the expire_timestamp of the token on 8 bytes, both little       *)
(* endian, then the 32 bytes of encryption_keys.client_to_server and the    *)
(* 32 bytes of encryption_keys.server_to_client; the token_version of the   *)
(* token is 1 as well.                                                      *)
(***************************************************************************)
C18_HeaderAgrees ==
    (Generated /\ generated.ok) =>
        LET token == generated.val
            header == SealedHeader(token)
        IN  /\ token.token_version = 1
            /\ Len(header) = 76
            /\ SubSeq(header, 1, 4) = <<1, 0, 0, 0>>
            /\ SubSeq(header, 5, 12) =
                  <<token.expire_timestamp % 256, (token.expire_timestamp \div 256) % 256,
                    0, 0, 0, 0, 0, 0>>
            /\ SubSeq(header, 13, 44) = token.encryption_keys.client_to_server
            /\ SubSeq(header, 45, 76) = token.encryption_keys.server_to_client
            /\ header = HeaderOf(token)

\* a token was returned whose expiry is not zero
C18_Witness ==
    /\ Generated /\ generated.ok
    /\ generated.val.expire_timestamp > 0
    /\ generated.val.encryption_keys.client_to_server
          # generated.val.encryption_keys.server_to_client
    /\ connect_response.body = generated.val

(***************************************************************************)
(* C19: whatever makes Token::generate fail during POST /v1/game/connect,   *)
(* the clock, a serialization or the cipher, the caller gets the same       *)
(* answer: status 500 with the code token_generation_failed, which is also  *)
(* the description; nothing of the failure itself is in the response.       *)
(***************************************************************************)
C19_TokenGenerationFailed ==
    (Generated /\ ~generated.ok) =>
        /\ connect_pc = "responded"
        /\ connect_response =
              [status |-> 500,
               body |-> [err_code |-> "token_generation_failed",
                         err_desc |-> "token_generation_failed"]]

\* the cipher failed and the caller got the answer of a failed generation
C19_Witness ==
    /\ Generated
    /\ generated = Err(External("aead::Error"))
    /\ connect_response.status = 500

(***************************************************************************)
(* C20 as stated: every server error is answered with the code "internal"   *)
(* and the description of an internal error.                                *)
(***************************************************************************)
C20_AsStated ==
    (connect_pc = "responded" /\ connect_error.type = "ServerError") =>
        /\ connect_response.status = 500
        /\ connect_response.body.err_code = "internal"
        /\ connect_response.body.err_desc = InternalErrorDescription

(***************************************************************************)
(* C20: a server error that carries the text of a failure of the database   *)
(* or of the system is answered with status 500, the code "internal" and    *)
(* the description of an internal error, and the text is not in the         *)
(* response; a server error with a code of the API keeps this code and has  *)
(* the code as its description.                                             *)
(***************************************************************************)
C20_ServerErrors ==
    (connect_pc = "responded" /\ connect_error.type = "ServerError") =>
        /\ connect_response.status = 500
        /\ IF connect_error.err_code.name \in {"External", "Internal"}
           THEN /\ connect_response.body.err_code = "internal"
                /\ connect_response.body.err_desc = InternalErrorDescription
           ELSE /\ connect_response.body.err_code = as_str(connect_error.err_code)
                /\ connect_response.body.err_desc = as_str(connect_error.err_code)
        /\ connect_error.err_code.name = "External" =>
              /\ connect_response.body.err_code # connect_error.err_code.text
              /\ connect_response.body.err_desc # connect_error.err_code.text

\* a query failed after the token was validated and the caller got the
\* answer of an internal error
C20_Witness ==
    /\ connect_pc = "responded"
    /\ player_id # 0
    /\ connect_error = DatabaseError("db error: connection closed")
    /\ connect_response.body.err_code = "internal"

(***************************************************************************)
(* Player creation, stated on the state of POST /v1/players.                *)
(***************************************************************************)
\* the characters a nickname may have when non-ASCII is disallowed: A-Z,
\* a-z, 0-9, the space and the underscore
PlainNicknameChars == (65..90) \cup (97..122) \cup (48..57) \cup {32, 95}

\* the code the trimmed nickname has to be rejected with, "" when it is accepted
ExpectedRejection ==
    LET trimmed == trim(create_params.nickname)
    IN  IF Len(trimmed) = 0 THEN "nickname_empty"
        ELSE IF Len(as_bytes(trimmed)) > create_config.player_nickname_maxlength
        THEN "nickname_toolong"
        ELSE IF /\ ~create_config.player_allow_non_ascii
                /\ \E i \in 1..Len(trimmed) : trimmed[i] \notin PlainNicknameChars
        THEN "nickname_forbidden_characters"
        ELSE ""

\* the tables are as they were before the request
TablesUntouched ==
    /\ transaction = NoTransaction
    /\ \/ players = <<>> /\ player_tokens = <<>>
       \/ players = <<ExistingPlayer>> /\ player_tokens = <<ExistingToken>>

(***************************************************************************)
(* C21: the nickname of POST /v1/players is checked after trimming: an      *)
(* empty one is answered 400 nickname_empty; otherwise one of more bytes    *)
(* than the configured maximum 400 nickname_toolong; otherwise, when        *)
(* non-ASCII is disallowed, one with a character outside [A-Za-z0-9 _]      *)
(* 400 nickname_forbidden_characters; a rejected nickname causes no store   *)
(* operation, and no other nickname is answered 400.                        *)
(***************************************************************************)
C21_NicknameValidation ==
    (create_pc # "idle") =>
        IF ExpectedRejection # ""
        THEN /\ create_pc = "responded"
             /\ create_response.status = 400
             /\ create_response.body.err_code = ExpectedRejection
             /\ store_ops = 0
             /\ TablesUntouched
        ELSE create_response.status # 400

\* a padded nickname that is too long and has a forbidden character was
\* answered nickname_toolong
C21_Witness ==
    /\ create_pc = "responded"
    /\ create_response.body.err_code = "nickname_toolong"
    /\ create_params.nickname # trim(create_params.nickname)
    /\ ~create_config.player_allow_non_ascii
    /\ \E i \in 1..Len(trim(create_params.nickname)) :
          trim(create_params.nickname)[i] \notin PlainNicknameChars

\* the bearer token of the request is rejected without a look at the store
TokenMalformed == params.token = "" \/ Len(params.token) > 64

(***************************************************************************)
(* C22 as stated: a connect request whose token is empty or longer than 64  *)
(* bytes is answered 400.                                                   *)
(***************************************************************************)
C22_AsStated ==
    (connect_pc = "responded" /\ TokenMalformed) => connect_response.status = 400

(***************************************************************************)
(* C22: POST /v1/game/connect calls Token::generate only once the token     *)
(* was validated and the row of its player found.  Once the connection to   *)
(* the store was obtained, an empty token is answered 400 empty_token and   *)
(* a token of more than 64 bytes, a token the store does not know and a     *)
(* token whose player row is missing are answered 400                       *)
(* authentication_invalid_token; on none of these requests Token::generate  *)
(* is invoked, and no query is sent to the store for an empty or too long   *)
(* token.  Such a request is answered 500 instead when the pool gives no    *)
(* connection, which is asked for before the token is looked at.            *)
(***************************************************************************)
C22_TokenAfterValidation ==
    /\ Generated => (player_id # 0 /\ player_result # NoRow /\ ~TokenMalformed)
    /\ connect_response.status = 200 => (Generated /\ generated.ok)
    /\ connect_response.status = 400 =>
          /\ ~Generated
          /\ connect_response.body.err_code \in {"empty_token", "authentication_invalid_token"}
    /\ TokenMalformed =>
          /\ store_queries = 0
          /\ ~Generated
          /\ connect_pc \in {"idle", "validate", "responded"}
          /\ connect_pc = "responded" =>
                \/ /\ connect_response.status = 400
                   /\ connect_response.body.err_code =
                         (IF params.token = "" THEN "empty_token"
                          ELSE "authentication_invalid_token")
                \/ /\ connect_response.status = 500
                   /\ player_id = 0
    /\ (connect_pc = "responded" /\ connect_error.type = "InvalidRequest" /\ ~TokenMalformed) =>
          /\ connect_response.status = 400
          /\ connect_response.body.err_code = "authentication_invalid_token"
          /\ store_queries = (IF player_id = 0 THEN 1 ELSE 2)
          /\ player_result = NoRow

\* the token was known but the row of its player was missing: answered 400
\* after two queries, and no token was generated
C22_Witness ==
    /\ connect_pc = "responded"
    /\ player_id # 0 /\ player_result = NoRow
    /\ connect_response.status = 400
    /\ store_queries = 2
    /\ ~Generated

\* semver precedence of two versions without pre-release part
VersionAbove(a, b) ==
    \/ a.major > b.major
    \/ a.major = b.major /\ a.minor > b.minor
    \/ a.major = b.major /\ a.minor = b.minor /\ a.patch > b.patch

\* the eligible release of highest version among those at the indices in S
HighestVersioned(listing, S) ==
    CHOOSE i \in S :
        \A j \in S \ {i} :
            VersionAbove(VersionParse(listing[i].tag_name).val,
                         VersionParse(listing[j].tag_name).val)

(***************************************************************************)
(* C23 as stated: whatever the order of the listing, a platform that the    *)
(* first eligible release does not ship is recorded from the eligible       *)
(* release of highest version, among those after it, that ships the         *)
(* platform.                                                                *)
(***************************************************************************)
C23_AsStated ==
    (GameDone /\ f_result.ok) =>
        \A key \in PlatformsOf(releases) :
            LET first == Min(EligibleIndices(releases))
                others == ReleasesWith(releases, key) \ {first}
            IN  ~HasPlatform(releases[first], key) =>
                    ComesFrom(ResultEntry(f_result.val, key),
                              releases[HighestVersioned(releases, others)], key)


(***************************************************************************)
(* C24: the invocations of the checksum resolver                            *)
(***************************************************************************)
\* the invocations the step added to the resolver's log
NewCalls == SubSeq(resolve_calls', Len(resolve_calls) + 1, Len(resolve_calls'))

\* the assets of the release that are considered for the working map: no
\* checksum file, and no platform the working map held before the release
ConsideredAssets(release, working) ==
    {i \in 1..Len(release.assets) :
        /\ ~ends_with(release.assets[i].name, ".sha256")
        /\ remove_game_suffix(release.assets[i].name) \notin working}

\* the invocations of the step are one per considered asset of the release,
\* each with the release's version and no checksum, and nothing else
CalledOncePerConsidered(release, working) ==
    LET version == VersionParse(release.tag_name).val
        considered == ConsideredAssets(release, working)
    IN  /\ Len(NewCalls) = Cardinality(considered)
        /\ \A i \in considered :
              Cardinality({k \in 1..Len(NewCalls) :
                              /\ NewCalls[k].name = release.assets[i].name
                              /\ NewCalls[k].download_url = release.assets[i].browser_download_url
                              /\ NewCalls[k].version = version
                              /\ NewCalls[k].sha256 = None}) = 1

\* C24: during get_latest_game_release the checksum resolver is invoked
\* exactly once for each asset considered for the working map (no name ending
\* in ".sha256", no platform the working map already held before the older
\* release was processed) and never otherwise, each time with the asset
\* tagged with its own release's version and with sha256 absent
C24_ResolverCalls ==
    [][f_op' = "game" =>
          CASE f_pc = "idle" /\ f_pc' = "resolving_latest" ->
                   CalledOncePerConsidered(releases'[Min(EligibleIndices(releases'))], {})
            [] f_pc = "merged" /\ f_pc' = "resolving_older" ->
                   CalledOncePerConsidered(Head(versions_released).release, DOMAIN binaries)
            [] OTHER -> resolve_calls' = resolve_calls]_vars

\* an older release was processed whose windows binary was skipped, the
\* working map holding the platform already, and whose linux binary was resolved
C24_Witness ==
    /\ f_op = "game"
    /\ f_pc = "resolving_older"
    /\ \E i \in EligibleIndices(releases) :
          /\ i # Min(EligibleIndices(releases))
          /\ HasPlatformFile(releases[i], "windows_x64")
          /\ \E k \in 1..Len(resolve_calls) :
                /\ resolve_calls[k].name = "linux_x86_64_releasedbg.zip"
                /\ resolve_calls[k].version = VersionParse(releases[i].tag_name).val
          /\ ~\E k \in 1..Len(resolve_calls) :
                /\ resolve_calls[k].name = "windows_x64_releasedbg.zip"
                /\ resolve_calls[k].version = VersionParse(releases[i].tag_name).val

(***************************************************************************)
(* C25: requests behind a fetch that has not returned                       *)
(***************************************************************************)
Fetching(r) == pc[r] \in {"fetching_updater", "fetching_game"}

\* C25: while one /game_version request is in a fetch that has not returned,
\* every other request stays where it is, waiting for the cache mutex, and
\* receives no response, also when the entry it would look up first is cached
\* and fresh and when it needs another key than the one being fetched
C25_OthersBlocked ==
    [][\A r \in Requests :
          (Fetching(r) /\ pc'[r] = pc[r]) =>
              \A q \in Requests \ {r} :
                  /\ response'[q] = response[q]
                  /\ pc[q] \in {"idle", "waiting", "responded"}
                  /\ pc'[q] \in {"idle", "waiting", "responded"}
                  /\ pc[q] = "waiting" => pc'[q] = "waiting"]_vars

\* a request waits for the mutex with no response while another one fetches
\* the game release, a second after the waiting one arrived, and the updater
\* entry the waiting request would look up first is cached and fresh
C25_Witness ==
    \E r, q \in Requests :
        /\ pc[r] = "fetching_game"
        /\ pc[q] = "waiting"
        /\ response[q] = NoResponse
        /\ now > invoked_at[r]
        /\ cache_fresh(cache, UpdaterKey, now)

(***************************************************************************)
(* C26: what a client sees of a failure of the database, the pool, the      *)
(* random source or the system                                              *)
(***************************************************************************)
UpstreamFailed == create_pc = "responded" /\ create_error.type = "ServerError"

\* C26: every failure converted at the boundary is a ServerError with the code
\* External(text), the cause Database for the driver and the pool and Internal
\* for the random source and I/O; its response is a 500 with the err_code
\* "internal" and the fixed description, and holds neither the cause nor the text
C26_NoUpstreamText ==
    UpstreamFailed =>
        LET text == create_error.err_code.text
            body == create_response.body
        IN  /\ create_error.err_code.name = "External"
            /\ text \in DatabaseErrorTexts \cup {RandomSourceErrorText}
            /\ text \in DatabaseErrorTexts => create_error.cause = "Database"
            /\ text = RandomSourceErrorText => create_error.cause = "Internal"
            /\ create_response.status = 500
            /\ DOMAIN body = {"err_code", "err_desc"}
            /\ body.err_code = "internal"
            /\ body.err_desc = InternalErrorDescription
            /\ \A field \in DOMAIN body : body[field] \notin {text, create_error.cause}

\* the random source failed while the token was drawn and the caller got the
\* answer of an internal error
C26_Witness ==
    /\ UpstreamFailed
    /\ create_error.cause = "Internal"
    /\ create_error.err_code.text = RandomSourceErrorText
    /\ create_response.status = 500
    /\ create_token = ""

(***************************************************************************)
(* C27: the variant of the entry under each key of the cache                *)
(***************************************************************************)
VariantOf(key) == IF key = UpdaterKey THEN "Updater" ELSE "Game"

\* the request got the 500 of the key without its producer having failed
MismatchAnswer(r, key, code) ==
    /\ pc[r] = "responded"
    /\ response[r].status = 500
    /\ response[r].body.err_code = code
    /\ ~\E j \in 1..Len(cache_log) :
          /\ cache_log[j].request = r
          /\ cache_log[j].key = key
          /\ ~cache_log[j].hit
          /\ ~cache_log[j].result.ok

\* C27: in every state of the cache the entry under "latest_updater_release"
\* is of the Updater variant and the entry under "latest_game_release" of the
\* Game variant, every lookup served from the cache returns the variant of its
\* key, and no request is answered with a 500 but after its producer failed
C27_CacheVariants ==
    /\ DOMAIN cache \subseteq {UpdaterKey, GameKey}
    /\ \A key \in DOMAIN cache : cache[key].value.variant = VariantOf(key)
    /\ \A j \in 1..Len(cache_log) :
          cache_log[j].result.ok => cache_log[j].result.val.variant = VariantOf(cache_log[j].key)
    /\ \A r \in Requests :
          /\ ~MismatchAnswer(r, UpdaterKey, "fetch_updater_release")
          /\ ~MismatchAnswer(r, GameKey, "fetch_game_release")

\* both keys are cached and a request was served both entries from the cache
C27_Witness ==
    /\ DOMAIN cache = {UpdaterKey, GameKey}
    /\ \E r \in Requests :
          /\ pc[r] = "responded"
          /\ response[r].status = 200
          /\ \A key \in {UpdaterKey, GameKey} :
                \E j \in 1..Len(cache_log) :
                    /\ cache_log[j].request = r
                    /\ cache_log[j].key = key
                    /\ cache_log[j].hit

(***************************************************************************)
(* C28: the cache mutex is released on every exit of game_version           *)
(***************************************************************************)
\* C28: a request that returns (500 of the updater, 500 of the game, 404, 200)
\* leaves the mutex free or with the longest waiting request, so, every fetch
\* returning, every request that arrived is answered in the end and none waits
\* for the mutex for ever
C28_EveryRequestAnswered ==
    /\ [](\A r \in Requests : pc[r] = "responded" => lock_holder # r)
    /\ []((\A r \in Requests : pc[r] \in {"idle", "responded"}) => lock_holder = 0)
    /\ \A r \in Requests :
          (pc[r] # "idle") ~> (pc[r] = "responded" /\ response[r] # NoResponse)

\* a request was answered with a 500 and the mutex went to the next request,
\* which is now at its first lookup
C28_Witness ==
    \E r, q \in Requests :
        /\ pc[r] = "responded"
        /\ response[r].status = 500
        /\ lock_holder = q
        /\ pc[q] = "updater_lookup"

(***************************************************************************)
(* C29: the versions of the 200 response                                    *)
(***************************************************************************)
Answered200(r) == pc[r] = "responded" /\ response[r].status = 200

\* the game release try_get_or_set_with returned to the request
GameReleaseOf(r) ==
    LET j == CHOOSE i \in 1..Len(cache_log) :
                 cache_log[i].request = r /\ cache_log[i].key = GameKey
    IN  cache_log[j].result.val.release

\* C29: in a 200 response for platform X the version is the one of the newest
\* eligible game release, also when the binary of X is the one of an older
\* release; the binary is answered without the version of its release, and
\* assets_version is the version of the release the assets bundle is from
C29_ResponseVersions ==
    \A r \in Requests :
        Answered200(r) =>
            \E listing \in HostGameListings :
                LET game == GameReleaseOf(r)
                    body == response[r].body
                    newest == listing[Min(EligibleIndices(listing))]
                IN  /\ Ok(game) = get_latest_game_release(Ok(listing), <<>>)
                    /\ body.version = newest.tag_name
                    /\ DOMAIN body = {"assets", "assets_version", "binaries", "updater", "version"}
                    /\ DOMAIN body.binaries = {"size", "download_url", "sha256"}
                    /\ \E i \in EligibleIndices(listing) :
                          /\ ComesFrom(game.binaries[platform[r]], listing[i], platform[r])
                          /\ body.binaries.download_url = game.binaries[platform[r]].download_url
                    /\ \E i \in EligibleIndices(listing) :
                          /\ ComesFrom(game.assets, listing[i], "assets")
                          /\ body.assets.download_url = game.assets.download_url
                          /\ body.assets_version = listing[i].tag_name

\* a 200 response whose binary and assets bundle are those of 0.1.0 and
\* whose version is the one of the newest release, 0.2.0
C29_Witness ==
    \E r \in Requests :
        /\ Answered200(r)
        /\ GameReleaseOf(r).binaries[platform[r]].version # GameReleaseOf(r).version
        /\ response[r].body.version = "0.2.0"
        /\ response[r].body.assets_version = "0.1.0"

(***************************************************************************)
(* C30 as stated: the creation of a player is atomic                        *)
(***************************************************************************)
RowsOfRequest == {i \in 1..Len(players) : players[i].uuid = create_uuid}

TokensOfRequest == {i \in 1..Len(player_tokens) : player_tokens[i].token = create_token}

\* C30: a request answered with {uuid, token} has committed exactly one row
\* of the player and exactly one row of the token, the token being the one of
\* that player, and a request answered with a server error has persisted
\* neither row
C30_AsStated ==
    create_pc = "responded" =>
        /\ create_response.status = 200 =>
              /\ transaction = NoTransaction
              /\ Cardinality(RowsOfRequest) = 1
              /\ Cardinality(TokensOfRequest) = 1
              /\ \A i \in RowsOfRequest : \A j \in TokensOfRequest :
                    player_tokens[j].player_id = players[i].id
              /\ Len(players) = Len(player_tokens)
        /\ create_response.status = 500 => TablesUntouched
=============================================================================
